---- MODULE Spec2Model ----
(***************************************************************************)
(* A model of the Consumer of the flora price oracle: proof intake,        *)
(* per-epoch aggregation, leader publication with retries, the state-topic *)
(* tailer and the /price/latest read.                                      *)
(*                                                                         *)
(* Abstractions.                                                            *)
(*  - sha384 is taken to be collision free: a digest is modelled as the    *)
(*    tagged canonical form it was computed from.                          *)
(*  - Prices are integers in units of 1e-8.                                *)
(*  - Consensus timestamps are natural numbers; the ledger hands them out  *)
(*    in increasing order (floraTopic index). Undefined is -1.             *)
(*  - An absent optional string field is the string "undefined".           *)
(***************************************************************************)
EXTENDS Integers, Sequences, FiniteSets, TLC

(* ------------------------------------------------------------------ *)
(* Bounds of the model                                                *)
(* ------------------------------------------------------------------ *)
MaxProofs == 2       \* proofs ingested in a run of Spec
MaxAggProofs == 4    \* proofs ingested in a run of SpecAgg
MaxDupProofs == 5    \* proofs ingested in a run of SpecDup
MaxTopic == 2        \* messages on the flora state topic
MaxIntakeProofs == 2 \* proofs ingested in a run of SpecIntake
MaxMetaProofs == 3   \* proofs ingested in a run of SpecMeta

(* ------------------------------------------------------------------ *)
(* Configuration of the Consumer                                      *)
(* ------------------------------------------------------------------ *)
quorum == 2
expectedPetals == 3

thresholdFingerprint == "demo-threshold"
floraAccountId == "0.0.900"
stateTopicId == "0.0.500"
adapterCategoryTopicId == "0.0.600"

\* The petals of the flora, and the petal ids proofs may carry.
Petals == {"petal-1", "petal-2", "petal-3"}
PetalIds == Petals \cup {"petal-4"}

petalAccountsById ==
  [p \in Petals |->
     CASE p = "petal-1" -> "0.0.10"
       [] p = "petal-2" -> "0.0.11"
       [] OTHER -> "0.0.12"]

\* The account and the state topic a petal puts in its proofs.
PetalAccount(p) == IF p \in Petals THEN petalAccountsById[p] ELSE "0.0.123"

PetalStateTopic(p) ==
  CASE p = "petal-1" -> "0.0.710"
    [] p = "petal-2" -> "0.0.711"
    [] p = "petal-3" -> "0.0.712"
    [] OTHER -> "0.0.713"

Epochs == {0, 1}

Undefined == -1
NoString == "undefined"
NoHash == << "none" >>
HcsPointer == "hcs://17/0.0.500"

(* ------------------------------------------------------------------ *)
(* Account ids                                                         *)
(* ------------------------------------------------------------------ *)
\* The account-id strings the model uses, in String.localeCompare order.
LocaleOrder ==
  << "0.0.010", "0.0.10", "0.0.11", "0.0.12", "0.0.123", "0.0.9", "0.0.900",
     "0.1", "petal-1", "petal-2" >>

LocaleRank(s) == CHOOSE i \in 1..Len(LocaleOrder) : LocaleOrder[i] = s

\* value.split('.').map(Number), a part that is no finite number counting 0.
toAccountParts(value) ==
  CASE value = "0.0.10" -> << 0, 0, 10 >>
    [] value = "0.0.010" -> << 0, 0, 10 >>
    [] value = "0.0.9" -> << 0, 0, 9 >>
    [] value = "0.1" -> << 0, 1 >>
    [] value = "0.0.11" -> << 0, 0, 11 >>
    [] value = "0.0.12" -> << 0, 0, 12 >>
    [] value = "0.0.123" -> << 0, 0, 123 >>
    [] value = "0.0.900" -> << 0, 0, 900 >>
    [] OTHER -> << 0 >>

PartAt(parts, i) == IF i <= Len(parts) THEN parts[i] ELSE 0

\* Mutation of AccountIdLess: the strings are compared as text only.
AccountIdLess_Lexical(left, right) == LocaleRank(left) < LocaleRank(right)

\* compareAccountIds(left, right) < 0
AccountIdLess(left, right) ==
  LET l == toAccountParts(left)
      r == toAccountParts(right)
      max == IF Len(l) > Len(r) THEN Len(l) ELSE Len(r)
      Diff == {i \in 1..max : PartAt(l, i) # PartAt(r, i)}
  IN  IF Diff = {}
      THEN LocaleRank(left) < LocaleRank(right)
      ELSE LET i == CHOOSE k \in Diff : \A j \in Diff : k <= j
           IN  PartAt(l, i) < PartAt(r, i)

RECURSIVE Unique(_)
Unique(s) ==
  IF s = << >> THEN << >>
  ELSE LET init == Unique(SubSeq(s, 1, Len(s) - 1))
           last == s[Len(s)]
       IN  IF \E i \in 1..Len(init) : init[i] = last THEN init ELSE Append(init, last)

RECURSIVE InsertAccount(_, _)
InsertAccount(sorted, id) ==
  IF sorted = << >> THEN << id >>
  ELSE IF AccountIdLess(id, sorted[1]) THEN << id >> \o sorted
  ELSE << sorted[1] >> \o InsertAccount(Tail(sorted), id)

RECURSIVE SortAccounts(_)
SortAccounts(s) ==
  IF s = << >> THEN << >>
  ELSE InsertAccount(SortAccounts(SubSeq(s, 1, Len(s) - 1)), s[Len(s)])

\* value.trim() for the strings the model uses.
Trim(value) ==
  CASE value = " 0.0.10" -> "0.0.10"
    [] value = "0.0.11 " -> "0.0.11"
    [] value = "  " -> ""
    [] OTHER -> value

\* ids.map(trim).filter(Boolean), then new Set, then sort(compareAccountIds).
sortAccountIds(ids) ==
  LET trimmed == [i \in 1..Len(ids) |-> Trim(ids[i])]
      kept == SelectSeq(trimmed, LAMBDA id : id # "")
  IN  SortAccounts(Unique(kept))

participantAccounts ==
  sortAccountIds(<< petalAccountsById["petal-1"], petalAccountsById["petal-2"],
                    petalAccountsById["petal-3"] >>)

Abs(n) == IF n < 0 THEN -n ELSE n

selectRoundLeader(epoch, accountIds) ==
  LET sorted == sortAccountIds(accountIds)
  IN  IF Len(sorted) = 0 THEN NoString
      ELSE sorted[(Abs(epoch) % Len(sorted)) + 1]

(* ------------------------------------------------------------------ *)
(* Adapter records, canonical form and state hash                      *)
(* ------------------------------------------------------------------ *)
AdapterOrder == << "binance", "coingecko", "hedera" >>

AdapterRank(a) == CHOOSE i \in 1..Len(AdapterOrder) : AdapterOrder[i] = a

adapterFingerprints == [binance |-> "fp-binance", coingecko |-> "fp-coingecko"]

\* Mutation of RecordLess: a comparator that puts a before b whatever they are.
RecordLess_Always(a, b) == TRUE

\* The comparator of normalizeRecords, as "a sorts strictly before b".
RecordLess(a, b) ==
  IF a.adapterId = b.adapterId
  THEN FALSE
  ELSE AdapterRank(a.adapterId) < AdapterRank(b.adapterId)

RECURSIVE InsertRecord(_, _)
InsertRecord(sorted, r) ==
  IF sorted = << >> THEN << r >>
  ELSE IF RecordLess(r, sorted[1]) THEN << r >> \o sorted
  ELSE << sorted[1] >> \o InsertRecord(Tail(sorted), r)

RECURSIVE normalizeRecords(_)
normalizeRecords(records) ==
  IF records = << >> THEN << >>
  ELSE InsertRecord(normalizeRecords(SubSeq(records, 1, Len(records) - 1)),
                    records[Len(records)])

\* canonicalize of the hashed object: keys in lexicographic order.
canonicalize(obj) ==
  << obj.adapterFingerprints, obj.records, obj.registryTopicId, obj.thresholdFingerprint >>

sha384(canonical) == << "sha384", canonical >>

ComputeStateHash(records, tf, fingerprints, registryTopicId) ==
  sha384(canonicalize([records |-> normalizeRecords(records),
                       thresholdFingerprint |-> tf,
                       adapterFingerprints |-> fingerprints,
                       registryTopicId |-> registryTopicId]))

\* The adapter data a petal may have sampled for an epoch ("A": the S2 majority
\* prices, "B": the S2 outlier).
RecordVariants == {"A", "B"}

AdapterRecords(v, e) ==
  << [adapterId |-> "binance", entityId |-> "HBAR-USD",
      payload |-> [price |-> IF v = "A" THEN 7000000 ELSE 8000000], timestamp |-> e],
     [adapterId |-> "coingecko", entityId |-> "HBAR-USD",
      payload |-> [price |-> 7100000], timestamp |-> e] >>

\* The configuration resolveConfig gives petal p when the shared epoch origin
\* is 0 and a block lasts one unit of time.
PetalConfig(p) ==
  [petalId |-> p,
   accountId |-> PetalAccount(p),
   petalStateTopicId |-> PetalStateTopic(p),
   floraAccountId |-> floraAccountId,
   participants |-> participantAccounts,
   floraThresholdFingerprint |-> thresholdFingerprint,
   blockTimeMs |-> 1,
   epochOriginMs |-> 0,
   publishStateTopic |-> TRUE,
   registryTopicId |-> adapterCategoryTopicId]

\* normalizedRecords of buildProof: every record gets the epoch's timestamp.
StampRecords(sortedRecords, epochTimestamp) ==
  [i \in 1..Len(sortedRecords) |->
     [sortedRecords[i] EXCEPT !.timestamp = epochTimestamp]]

\* buildProof(records, epoch, config, adapterFingerprints) of the petal; the
\* comparator of its sort is the one of normalizeRecords.
buildProofOf(records, epoch, config, fingerprints) ==
  LET epochTimestamp == config.epochOriginMs + epoch * config.blockTimeMs
      sortedRecords == normalizeRecords(records)
      normalizedRecords == StampRecords(sortedRecords, epochTimestamp)
  IN  [epoch |-> epoch,
       stateHash |-> sha384(canonicalize(
                       [records |-> normalizedRecords,
                        thresholdFingerprint |-> config.floraThresholdFingerprint,
                        adapterFingerprints |-> fingerprints,
                        registryTopicId |-> config.registryTopicId])),
       thresholdFingerprint |-> config.floraThresholdFingerprint,
       petalId |-> config.petalId,
       petalAccountId |-> config.accountId,
       petalStateTopicId |-> config.petalStateTopicId,
       floraAccountId |-> config.floraAccountId,
       participants |-> config.participants,
       records |-> normalizedRecords,
       timestamp |-> epochTimestamp,
       adapterFingerprints |-> fingerprints,
       registryTopicId |-> config.registryTopicId,
       hcsMessage |-> NoString,
       consensusTimestamp |-> Undefined,
       sequenceNumber |-> Undefined]

\* The proof petal p builds for epoch e from adapter data v.
buildProof(p, e, v) ==
  buildProofOf(AdapterRecords(v, e), e, PetalConfig(p), adapterFingerprints)

(* ------------------------------------------------------------------ *)
(* aggregateConsensus                                                  *)
(* ------------------------------------------------------------------ *)
RECURSIVE FlatMap(_)
FlatMap(ss) == IF ss = << >> THEN << >> ELSE ss[1] \o FlatMap(Tail(ss))

WithHash(proofs, h) == SelectSeq(proofs, LAMBDA p : p.stateHash = h)

\* Mutation of HashOrder: the keys are visited from the last inserted to the
\* first.
HashOrder_Reversed(proofs) ==
  LET keys == Unique([i \in 1..Len(proofs) |-> proofs[i].stateHash])
  IN  [i \in 1..Len(keys) |-> keys[Len(keys) + 1 - i]]

\* Keys of proofsByHash in Map insertion order.
HashOrder(proofs) == Unique([i \in 1..Len(proofs) |-> proofs[i].stateHash])

\* The loop of lines 90-97: the first group that is strictly larger than
\* every group before it and at least as large as every group after it.
RECURSIVE ChooseHash(_, _, _)
ChooseHash(proofs, hashes, chosen) ==
  IF hashes = << >> THEN chosen
  ELSE LET size == Len(WithHash(proofs, hashes[1]))
           best == IF chosen = NoHash THEN 0 ELSE Len(WithHash(proofs, chosen))
       IN  ChooseHash(proofs, Tail(hashes), IF size > best THEN hashes[1] ELSE chosen)

RECURSIVE InsertPrice(_, _)
InsertPrice(sorted, x) ==
  IF sorted = << >> THEN << x >>
  ELSE IF x < sorted[1] THEN << x >> \o sorted
  ELSE << sorted[1] >> \o InsertPrice(Tail(sorted), x)

RECURSIVE SortPrices(_)
SortPrices(s) ==
  IF s = << >> THEN << >>
  ELSE InsertPrice(SortPrices(SubSeq(s, 1, Len(s) - 1)), s[Len(s)])

\* Mutation of medianPrice2: an even count yields the upper middle value.
medianPrice2_UpperMiddle(prices) ==
  LET sorted == SortPrices(prices)
  IN  2 * sorted[(Len(sorted) \div 2) + 1]

\* Twice the median of a non-empty list of prices (an integer).
medianPrice2(prices) ==
  LET sorted == SortPrices(prices)
      mid == Len(sorted) \div 2
  IN  IF Len(sorted) % 2 = 0 THEN sorted[mid] + sorted[mid + 1] ELSE 2 * sorted[mid + 1]

\* Number(x.toFixed(8)) of x = twice / 2, in units of 1e-8.
toFixed8(twice) == (twice + 1) \div 2

isAccountId(value) == Len(toAccountParts(Trim(value))) = 3

NullResult == [ok |-> FALSE]

\* Mutation of GroupTooSmall: the size of the chosen group is not checked.
GroupTooSmall_NoSizeCheck(chosenHash, matching, q) == chosenHash = NoHash

\* Line 99: no group, or the largest group is below quorum.
GroupTooSmall(chosenHash, matching, q) == chosenHash = NoHash \/ Len(matching) < q

aggregateConsensus(epoch, proofs, q, tf, participants) ==
  IF Len(proofs) < q THEN NullResult
  ELSE
    LET chosenHash == ChooseHash(proofs, HashOrder(proofs), NoHash)
        matching == IF chosenHash = NoHash THEN << >> ELSE WithHash(proofs, chosenHash)
    IN
    IF GroupTooSmall(chosenHash, matching, q) THEN NullResult
    ELSE
      LET first == matching[1]
          stateHash == ComputeStateHash(first.records, tf, first.adapterFingerprints,
                                        first.registryTopicId)
          prices == FlatMap([i \in 1..Len(matching) |->
                       [j \in 1..Len(matching[i].records) |->
                          matching[i].records[j].payload.price]])
          proofParticipants == FlatMap([i \in 1..Len(matching) |-> matching[i].participants])
          proofAccountIds == SelectSeq(proofParticipants, isAccountId)
          participantPool ==
            IF Len(participants) > 0 THEN participants
            ELSE IF Len(proofAccountIds) > 0 THEN proofAccountIds
            ELSE [i \in 1..Len(matching) |-> matching[i].petalAccountId]
          sources == FlatMap([i \in 1..Len(matching) |->
                       [j \in 1..Len(matching[i].records) |->
                          [source |-> matching[i].records[j].adapterId,
                           price |-> matching[i].records[j].payload.price]]])
          withTs == SelectSeq(matching, LAMBDA p : p.consensusTimestamp # Undefined)
          withSeq == SelectSeq(matching, LAMBDA p : p.sequenceNumber # Undefined)
      IN
      IF stateHash # chosenHash THEN NullResult
      ELSE IF Len(prices) = 0 THEN NullResult
      ELSE
        [ok |-> TRUE,
         entry |->
           [epoch |-> epoch,
            stateHash |-> stateHash,
            price |-> toFixed8(medianPrice2(prices)),
            timestamp |-> first.timestamp,
            participants |-> sortAccountIds(participantPool),
            sources |-> sources,
            hcsMessage |-> first.hcsMessage,
            consensusTimestamp |->
              IF Len(withTs) > 0 THEN withTs[1].consensusTimestamp
              ELSE first.consensusTimestamp,
            sequenceNumber |->
              IF Len(withSeq) > 0 THEN withSeq[1].sequenceNumber
              ELSE first.sequenceNumber],
         proofs |-> matching]

(* ------------------------------------------------------------------ *)
(* State of the Consumer (buildConsumer) and of the ledger             *)
(* ------------------------------------------------------------------ *)
VARIABLES
  publishEnabled,        \* options.publishConsensus was given
  proofsByEpoch,         \* epoch -> sequence of enriched proofs
  history,               \* sequence of ConsensusEntry
  petalAdapters,         \* petalId -> roster entry or NoAdapter
  metaByEpoch,           \* epoch -> metadata or NoMeta
  metaQueue,             \* sequence of epochs awaiting metadata
  publishedConsensus,    \* epoch -> stateHash or NoHash
  publishingConsensus,   \* epoch -> stateHash or NoHash
  publishRetryTimers,    \* epochs with a pending retry timer
  publishRetryAttempts,  \* epochs that have a count of failed attempts
  petalStateTopicsById,  \* petalId -> topic id or NoString
  lastTimestamp,         \* cursor of the state-topic poller
  calls,                 \* publishConsensus promises not yet settled
  floraTopic,            \* messages on the flora state topic, in consensus order
  httpStatus,            \* status of the last POST /proof response (0: none yet)
  httpError,             \* the error of that response's body ("": none)
  chunkBuffer,           \* (petalId, epoch) -> buffered chunk parts or NoBuffer
  args,                  \* arguments of the last call of a pure function
  result,                \* what that call returned
  now,                   \* true time, in units of blockTimeMs
  appState,              \* the app_state row epoch_origin_ms (Undefined: none)
  petalProc,             \* petal -> state of its startPetal invocation
  petalTopics,           \* messages submitted to the petals' state topics
  posted,                \* proofs the Consumer received from the petals
  listening,             \* the HTTP server accepts requests
  pollTimer,             \* the poller's interval timer is set
  polling,               \* a pollMirror call is in progress
  persistEnabled,        \* options.persistConsensus was given
  pendingWrites,         \* saveConsensusEntry calls that have not completed
  consensusRows,         \* the consensus_entries table: epoch -> row or NoRow
  pollsInFlight,         \* pollMirror executions between their fetch and their loop
  delivered              \* consensus timestamps handed to applyMeta / ingestProof

petalVars == << now, appState, petalProc, petalTopics, posted >>

lifeVars == << listening, pollTimer, polling >>

ioVars == << persistEnabled, consensusRows, pollsInFlight >>

consumerVars ==
  << publishEnabled, proofsByEpoch, history, petalAdapters, metaByEpoch, metaQueue,
     publishedConsensus, publishingConsensus, publishRetryTimers,
     publishRetryAttempts, petalStateTopicsById, lastTimestamp, calls,
     floraTopic, httpStatus, httpError, chunkBuffer, pendingWrites, delivered >>

vars == << consumerVars, args, result, petalVars, lifeVars, ioVars >>

\* One buffer per `${petalId}-${epoch}`.
ChunkKeys == PetalIds \X Epochs
NoBuffer == [total |-> 0, parts |-> << >>]

NoMeta == [consensusTimestamp |-> Undefined, sequenceNumber |-> Undefined]
NoAdapter == [petalId |-> NoString]

\* The mutable maps an operation of the Consumer works on, as one value.
State ==
  [proofsByEpoch |-> proofsByEpoch,
   history |-> history,
   petalAdapters |-> petalAdapters,
   metaByEpoch |-> metaByEpoch,
   metaQueue |-> metaQueue,
   publishedConsensus |-> publishedConsensus,
   publishingConsensus |-> publishingConsensus,
   publishRetryTimers |-> publishRetryTimers,
   publishRetryAttempts |-> publishRetryAttempts,
   calls |-> calls,
   pendingWrites |-> pendingWrites]

Commit(st) ==
  /\ proofsByEpoch' = st.proofsByEpoch
  /\ history' = st.history
  /\ petalAdapters' = st.petalAdapters
  /\ metaByEpoch' = st.metaByEpoch
  /\ metaQueue' = st.metaQueue
  /\ publishedConsensus' = st.publishedConsensus
  /\ publishingConsensus' = st.publishingConsensus
  /\ publishRetryTimers' = st.publishRetryTimers
  /\ publishRetryAttempts' = st.publishRetryAttempts
  /\ calls' = st.calls
  /\ pendingWrites' = st.pendingWrites

\* Mutation of Coalesce: a value that is present is replaced by a later one.
Coalesce_LastWins(a, b) == IF b # Undefined THEN b ELSE a

\* a ?? b
Coalesce(a, b) == IF a # Undefined THEN a ELSE b
CoalesceStr(a, b) == IF a # NoString THEN a ELSE b

\* Array.prototype.findIndex on history by epoch (0: not found).
FindIndexByEpoch(hist, e) ==
  IF \E i \in 1..Len(hist) : hist[i].epoch = e
  THEN CHOOSE i \in 1..Len(hist) :
         /\ hist[i].epoch = e
         /\ \A j \in 1..(i - 1) : hist[j].epoch # e
  ELSE 0

\* history.push(entry); history.sort((a, b) => a.epoch - b.epoch)  (stable)
RECURSIVE InsertEntry(_, _)
InsertEntry(sorted, entry) ==
  IF sorted = << >> THEN << entry >>
  ELSE IF entry.epoch < sorted[1].epoch THEN << entry >> \o sorted
  ELSE << sorted[1] >> \o InsertEntry(Tail(sorted), entry)

\* Mutation of SortHistory: the entry stays where push put it.
SortHistory_AppendOnly(hist) == hist

RECURSIVE SortHistory(_)
SortHistory(hist) ==
  IF hist = << >> THEN << >>
  ELSE InsertEntry(SortHistory(SubSeq(hist, 1, Len(hist) - 1)), hist[Len(hist)])

\* Mutation of StampEntry: the entry's own timestamp is taken from the metadata.
StampEntry_OverwritesTimestamp(entry, meta) ==
  [entry EXCEPT
     !.timestamp = meta.consensusTimestamp,
     !.consensusTimestamp = Coalesce(@, meta.consensusTimestamp),
     !.sequenceNumber = Coalesce(@, meta.sequenceNumber),
     !.hcsMessage = CoalesceStr(@, HcsPointer)]

\* The in-place update of a history entry: { ...history[idx], consensusTimestamp:
\* ?? , sequenceNumber: ??, hcsMessage: ?? } (lines 161-166 and 479-486).
StampEntry(entry, meta) ==
  [entry EXCEPT
     !.consensusTimestamp = Coalesce(@, meta.consensusTimestamp),
     !.sequenceNumber = Coalesce(@, meta.sequenceNumber),
     !.hcsMessage = CoalesceStr(@, HcsPointer)]

\* void persistConsensus(entry).catch(() => {}) (lines 168-170, 450-452 and
\* 488-490): the write is issued and not awaited.
persistConsensus(st, entry) ==
  IF persistEnabled THEN [st EXCEPT !.pendingWrites = Append(@, entry)] ELSE st

\* scheduleConsensusPublish, up to the start of the publishConsensus call.
\* live: proofs is the bucket array itself (a retry), which later pushes extend.
scheduleConsensusPublish(st, entry, proofs, live) ==
  IF ~publishEnabled THEN st
  ELSE IF st.publishedConsensus[entry.epoch] = entry.stateHash THEN st
  ELSE IF st.publishingConsensus[entry.epoch] = entry.stateHash THEN st
  ELSE [st EXCEPT
          !.publishingConsensus[entry.epoch] = entry.stateHash,
          !.publishRetryTimers = @ \ {entry.epoch},
          !.calls = Append(@, [epoch |-> entry.epoch,
                               stateHash |-> entry.stateHash,
                               proofs |-> proofs,
                               live |-> live,
                               stage |-> "running",
                               validated |-> "pending",
                               meta |-> NoMeta])]

\* Mutation of EntryExists: the entry is pushed whatever history holds.
EntryExists_Never(hist, entry) == FALSE

\* Lines 444-446: history.some(epoch and stateHash equal).
EntryExists(hist, entry) ==
  \E i \in 1..Len(hist) :
     /\ hist[i].epoch = entry.epoch
     /\ hist[i].stateHash = entry.stateHash

\* ingestProof for a whole proof (lines 407-455).
ingestProof(st, proof) ==
  LET meta == st.metaByEpoch[proof.epoch]
      enriched == [proof EXCEPT
                     !.hcsMessage = CoalesceStr(proof.hcsMessage, HcsPointer),
                     !.consensusTimestamp =
                        Coalesce(meta.consensusTimestamp, proof.consensusTimestamp),
                     !.sequenceNumber = Coalesce(meta.sequenceNumber, proof.sequenceNumber)]
      bucket == Append(st.proofsByEpoch[enriched.epoch], enriched)
      queued == \E i \in 1..Len(st.metaQueue) : st.metaQueue[i] = enriched.epoch
      st1 == [st EXCEPT
                !.petalAdapters[enriched.petalId] =
                   [petalId |-> enriched.petalId,
                    accountId |-> enriched.petalAccountId,
                    stateTopicId |-> enriched.petalStateTopicId,
                    epoch |-> enriched.epoch,
                    timestamp |-> enriched.timestamp],
                !.proofsByEpoch[enriched.epoch] = bucket,
                !.metaQueue =
                   IF st.metaByEpoch[enriched.epoch] = NoMeta /\ ~queued
                   THEN Append(@, enriched.epoch) ELSE @]
      consensus == aggregateConsensus(enriched.epoch, bucket, quorum,
                                      thresholdFingerprint, participantAccounts)
  IN  IF ~consensus.ok THEN st1
      ELSE LET entry == consensus.entry
               exists == EntryExists(st1.history, entry)
           IN  IF exists THEN st1
               ELSE scheduleConsensusPublish(
                      persistConsensus(
                        [st1 EXCEPT !.history = SortHistory(Append(@, entry))], entry),
                      entry, consensus.proofs, FALSE)

\* applyMeta (lines 458-492).
applyMeta(st, epoch, meta) ==
  LET existing == st.metaByEpoch[epoch]
      merged == [consensusTimestamp |->
                   Coalesce(meta.consensusTimestamp, existing.consensusTimestamp),
                 sequenceNumber |->
                   Coalesce(meta.sequenceNumber, existing.sequenceNumber)]
      bucket == st.proofsByEpoch[epoch]
      idx == FindIndexByEpoch(st.history, epoch)
      st1 ==
       [st EXCEPT
         !.metaByEpoch[epoch] = merged,
         !.proofsByEpoch[epoch] =
            [i \in 1..Len(bucket) |->
               [bucket[i] EXCEPT
                  !.consensusTimestamp = Coalesce(@, meta.consensusTimestamp),
                  !.sequenceNumber = Coalesce(@, meta.sequenceNumber)]],
         !.metaQueue = SelectSeq(@, LAMBDA e : e # epoch),
         !.history =
            IF idx = 0 THEN @
            ELSE [@ EXCEPT ![idx] = StampEntry(@, meta)]]
  IN  IF idx = 0 THEN st1 ELSE persistConsensus(st1, st1.history[idx])

(* ------------------------------------------------------------------ *)
(* Chunked proofs (ingestProof, lines 380-404)                         *)
(* ------------------------------------------------------------------ *)
\* The JSON text of a proof, as the pieces a chunk boundary may fall between:
\* the fields before "records" in two halves, the records with the commas
\* between them, and the fields after "records".
RECURSIVE RecordTokens(_)
RecordTokens(records) ==
  IF records = << >> THEN << >>
  ELSE IF Len(records) = 1 THEN << [t |-> "rec", v |-> records[1]] >>
  ELSE << [t |-> "rec", v |-> records[1]], [t |-> "comma", v |-> records[1]] >>
         \o RecordTokens(Tail(records))

\* JSON.stringify(proof)
Serialize(proof) ==
  << [t |-> "head1",
      v |-> [epoch |-> proof.epoch, stateHash |-> proof.stateHash,
             thresholdFingerprint |-> proof.thresholdFingerprint,
             petalId |-> proof.petalId]],
     [t |-> "head2",
      v |-> [petalAccountId |-> proof.petalAccountId,
             petalStateTopicId |-> proof.petalStateTopicId,
             floraAccountId |-> proof.floraAccountId,
             participants |-> proof.participants]] >>
  \o RecordTokens(proof.records)
  \o << [t |-> "tail",
         v |-> [timestamp |-> proof.timestamp,
                adapterFingerprints |-> proof.adapterFingerprints,
                registryTopicId |-> proof.registryTopicId]] >>

\* The text between "records":[ and ] is a JSON array body: nothing, or
\* records separated by single commas.
IsRecordList(tokens) ==
  \/ tokens = << >>
  \/ /\ Len(tokens) % 2 = 1
     /\ \A i \in 1..Len(tokens) :
          tokens[i].t = IF i % 2 = 1 THEN "rec" ELSE "comma"

\* JSON.parse(text): "error" when it throws, else the value.
ParseJson(tokens) ==
  IF /\ Len(tokens) >= 3
     /\ tokens[1].t = "head1"
     /\ tokens[2].t = "head2"
     /\ tokens[Len(tokens)].t = "tail"
     /\ IsRecordList(SubSeq(tokens, 3, Len(tokens) - 1))
  THEN LET h1 == tokens[1].v
           h2 == tokens[2].v
           tl == tokens[Len(tokens)].v
           mid == SubSeq(tokens, 3, Len(tokens) - 1)
           recs == SelectSeq(mid, LAMBDA tok : tok.t = "rec")
       IN  [kind |-> "proof",
            proof |->
              [epoch |-> h1.epoch,
               stateHash |-> h1.stateHash,
               thresholdFingerprint |-> h1.thresholdFingerprint,
               petalId |-> h1.petalId,
               petalAccountId |-> h2.petalAccountId,
               petalStateTopicId |-> h2.petalStateTopicId,
               floraAccountId |-> h2.floraAccountId,
               participants |-> h2.participants,
               records |-> [i \in 1..Len(recs) |-> recs[i].v],
               timestamp |-> tl.timestamp,
               adapterFingerprints |-> tl.adapterFingerprints,
               registryTopicId |-> tl.registryTopicId,
               hcsMessage |-> NoString,
               consensusTimestamp |-> Undefined,
               sequenceNumber |-> Undefined]]
  ELSE IF Len(tokens) = 1 /\ tokens[1].t = "rec"
  THEN [kind |-> "record"]
  ELSE [kind |-> "error"]

\* typeof value === "string" && value.trim().length > 0 (NoString: the field
\* is absent)
isString(value) == value # NoString /\ Trim(value) # ""

\* typeof value === "number" && Number.isFinite(value) (Undefined: the field
\* is absent)
isNumber(value) == value # Undefined

\* isAdapterRecord (lines 30-39): the payload of every record of the model is
\* an object.
isAdapterRecord(value) ==
  /\ isString(value.adapterId)
  /\ isString(value.entityId)
  /\ isNumber(value.timestamp)

\* The conjunction of isProofPayload (lines 42-55), field by field. A state
\* hash and a timestamp are strings of the program.
HasProofFields(value) ==
  /\ isNumber(value.epoch)
  /\ value.stateHash # NoHash
  /\ isString(value.thresholdFingerprint)
  /\ isString(value.petalId)
  /\ isString(value.petalAccountId)
  /\ isString(value.floraAccountId)
  /\ \A i \in 1..Len(value.participants) : isString(value.participants[i])
  /\ \A i \in 1..Len(value.records) : isAdapterRecord(value.records[i])
  /\ isNumber(value.timestamp)
  /\ \A k \in DOMAIN value.adapterFingerprints : isString(value.adapterFingerprints[k])
  /\ isString(value.registryTopicId)

\* isProofPayload of a parsed value: an object (not a lone adapter record)
\* whose fields pass.
isProofPayload(parsed) == parsed.kind = "proof" /\ HasProofFields(parsed.proof)

\* An index of `new Array(total)` that was never assigned. The data of a chunk
\* is a non-empty string, so no assigned part is empty.
Hole == << >>

\* parts.every((part) => part !== undefined): Array.prototype.every calls back
\* only for the indexes that have been assigned, and every assigned part is a
\* string.
EveryPart(parts) ==
  \A i \in {k \in 1..Len(parts) : parts[k] # Hole} : parts[i] # Hole

\* parts.join(''): an index never assigned contributes the empty string.
Join(parts) == FlatMap(parts)

\* ingestProof for a chunk: st is the Consumer state, buf the chunk buffer.
ingestChunk(st, buf, chunk) ==
  LET key == << chunk.petalId, chunk.epoch >>
      existing == IF buf[key] = NoBuffer
                  THEN [total |-> chunk.total_chunks,
                        parts |-> [i \in 1..chunk.total_chunks |-> Hole]]
                  ELSE buf[key]
      parts == [existing.parts EXCEPT ![chunk.chunk_id] = chunk.data]
      kept == [buf EXCEPT ![key] = [existing EXCEPT !.parts = parts]]
      dropped == [buf EXCEPT ![key] = NoBuffer]
      parsed == ParseJson(Join(parts))
  IN  IF ~EveryPart(parts) THEN [st |-> st, buf |-> kept]
      ELSE IF parsed.kind = "error" THEN [st |-> st, buf |-> kept]
      ELSE IF ~isProofPayload(parsed) THEN [st |-> st, buf |-> dropped]
      ELSE [st |-> ingestProof(st, parsed.proof), buf |-> dropped]

\* The chunks a sender cuts the text of a proof into: three pieces, cut after
\* token a and after token b.
ChunksOf(proof, a, b) ==
  LET text == Serialize(proof)
      pieces == << SubSeq(text, 1, a), SubSeq(text, a + 1, b),
                   SubSeq(text, b + 1, Len(text)) >>
  IN  [i \in 1..3 |->
         [epoch |-> proof.epoch,
          petalId |-> proof.petalId,
          petalAccountId |-> proof.petalAccountId,
          floraAccountId |-> proof.floraAccountId,
          chunk_id |-> i,
          total_chunks |-> 3,
          data |-> pieces[i]]]

(* ------------------------------------------------------------------ *)
(* Inputs                                                              *)
(* ------------------------------------------------------------------ *)
\* A proof whose records were replaced after hashing.
Tampered(proof) == [proof EXCEPT !.records = AdapterRecords("B", proof.epoch)]

\* A proof that carries the optional log metadata fields in its body.
ForgedTimestamp == 77
WithLogFields(proof) ==
  [proof EXCEPT !.consensusTimestamp = ForgedTimestamp, !.sequenceNumber = ForgedTimestamp]

HonestProofs(petals, epochs) ==
  {buildProof(p, e, v) : p \in petals, e \in epochs, v \in RecordVariants}

(* ------------------------------------------------------------------ *)
(* The petal (startPetal)                                              *)
(* ------------------------------------------------------------------ *)
MaxNow == 1       \* the last instant of true time
MaxRuns == 2      \* adapter runs started by all petals together

\* The petals that run, and how far each one's wall clock is ahead of true
\* time.
PetalNodes == {"petal-1", "petal-2"}
ClockSkew == [p \in PetalNodes |-> IF p = "petal-1" THEN 1 ELSE 0]

\* Date.now() on the host of petal p
DateNow(p) == now + ClockSkew[p]

\* PETAL_PUBLISH_STATE_TOPIC of each petal
publishStateTopic == [p \in PetalNodes |-> p = "petal-1"]

\* The adapters resolveAdapters may return (same set, either order).
AdapterLists == {<< "binance", "coingecko" >>, << "coingecko", "binance" >>}

\* What an adapter's discoverPrice resolves to when it succeeds at time t.
discoverPrice(adapterId, v, t) ==
  [adapterId |-> adapterId, entityId |-> "HBAR-USD",
   payload |-> [price |-> IF adapterId = "coingecko" THEN 7100000
                          ELSE IF v = "A" THEN 7000000 ELSE 8000000],
   timestamp |-> t]

NotStarted == [pc |-> "boot", epochOriginStored |-> Undefined, epochOriginMs |-> Undefined,
               lastEpoch |-> -1, started |-> << >>, runs |-> {}, log |-> {}]

InitPetal ==
  /\ now = 0
  /\ appState = Undefined
  /\ petalProc = [p \in PetalNodes |-> NotStarted]
  /\ petalTopics = {}
  /\ posted = {}

\* Time passes.
Tick ==
  /\ now < MaxNow
  /\ now' = now + 1
  /\ UNCHANGED << consumerVars, lifeVars, args, result, appState, petalProc, petalTopics, posted, ioVars >>

\* resolveConfig up to the clamp (lines 142-172): the stored origin is read,
\* then the origin is the stored one or else Date.now(), and never later than
\* Date.now().
ReadOrigin(p) ==
  /\ petalProc[p].pc = "boot"
  /\ LET epochOriginStored == appState
         epochOriginMs == IF epochOriginStored # Undefined
                          THEN epochOriginStored ELSE DateNow(p)
         clamped == IF epochOriginMs > DateNow(p) THEN DateNow(p) ELSE epochOriginMs
     IN  petalProc' = [petalProc EXCEPT ![p].pc = "origin",
                                        ![p].epochOriginStored = epochOriginStored,
                                        ![p].epochOriginMs = clamped]
  /\ UNCHANGED << consumerVars, lifeVars, args, result, now, appState, petalTopics, posted, ioVars >>

\* if (!epochOriginStored) await setState("epoch_origin_ms", ...); the rest of
\* startPetal up to `let lastEpoch = -1`.
PersistOrigin(p) ==
  /\ petalProc[p].pc = "origin"
  /\ appState' = IF petalProc[p].epochOriginStored = Undefined
                 THEN petalProc[p].epochOriginMs ELSE appState
  /\ petalProc' = [petalProc EXCEPT ![p].pc = "running", ![p].lastEpoch = -1]
  /\ UNCHANGED << consumerVars, lifeVars, args, result, now, petalTopics, posted, ioVars >>

\* The configuration of a running petal.
ConfigOf(p) ==
  [PetalConfig(p) EXCEPT !.epochOriginMs = petalProc[p].epochOriginMs,
                         !.publishStateTopic = publishStateTopic[p]]

Max0(n) == IF n < 0 THEN 0 ELSE n

\* Mutation of SkipsEpoch: every tick starts a run.
SkipsEpoch_Never(epoch, lastEpoch) == FALSE

\* if (epoch <= lastEpoch) return;
SkipsEpoch(epoch, lastEpoch) == epoch <= lastEpoch

\* executeEpoch (lines 472-497) up to the call of runEpoch, which runs to its
\* first await: the adapters have been asked.
RunsStarted[ps \in SUBSET PetalNodes] ==
  IF ps = {} THEN 0
  ELSE LET p == CHOOSE q \in ps : TRUE
       IN  Len(petalProc[p].started) + RunsStarted[ps \ {p}]

ExecuteEpoch(p) ==
  /\ petalProc[p].pc = "running"
  /\ RunsStarted[PetalNodes] < MaxRuns
  /\ LET config == ConfigOf(p)
         elapsedMs == Max0(DateNow(p) - config.epochOriginMs)
         epoch == elapsedMs \div config.blockTimeMs
     IN  IF SkipsEpoch(epoch, petalProc[p].lastEpoch)
         THEN UNCHANGED petalProc
         ELSE petalProc' =
                [petalProc EXCEPT
                   ![p].lastEpoch = epoch,
                   ![p].started = Append(@, epoch),
                   ![p].runs = @ \cup {[epoch |-> epoch, stage |-> "adapters",
                                        proof |-> << >>]}]
  /\ UNCHANGED << consumerVars, lifeVars, args, result, now, appState, petalTopics, posted, ioVars >>

\* Mutation of PartialRecords: an epoch with fewer records than adapters is
\* not skipped.
PartialRecords_Never(records, adapters) == FALSE

\* records.length < adapters.length
PartialRecords(records, adapters) == Len(records) < Len(adapters)

\* runEpoch from Promise.allSettled to the submission (lines 390-421):
\* `failed` are the adapters whose discoverPrice rejected or timed out.
AdaptersSettled(p, run, adapters, v, failed) ==
  /\ run \in petalProc[p].runs
  /\ run.stage = "adapters"
  /\ LET fulfilled == SelectSeq(adapters, LAMBDA a : a \notin failed)
         records == [i \in 1..Len(fulfilled) |->
                       discoverPrice(fulfilled[i], v, DateNow(p))]
         config == ConfigOf(p)
         rest == petalProc[p].runs \ {run}
         warned == petalProc[p].log \cup
                     IF Len(records) = 0
                     THEN {[event |-> "No records", epoch |-> run.epoch]}
                     ELSE IF PartialRecords(records, adapters)
                     THEN {[event |-> "Partial records", epoch |-> run.epoch]}
                     ELSE {}
     IN  IF Len(records) = 0 \/ PartialRecords(records, adapters)
         THEN petalProc' = [petalProc EXCEPT ![p].runs = rest, ![p].log = warned]
         ELSE LET proof == buildProofOf(records, run.epoch, config, adapterFingerprints)
                  stage == IF config.publishStateTopic THEN "submit" ELSE "post"
              IN  petalProc' =
                    [petalProc EXCEPT
                       ![p].runs = rest \cup {[epoch |-> run.epoch, stage |-> stage,
                                               proof |-> proof]},
                       ![p].log = warned]
  /\ UNCHANGED << consumerVars, lifeVars, args, result, now, appState, petalTopics, posted, ioVars >>

\* hcs17Client.submitMessage settles (lines 421-436 and 494-496): on success
\* runEpoch returns the proof, on failure it rejects and the catch of
\* executeEpoch logs the error.
SubmitSettled(p, run, ok) ==
  /\ run \in petalProc[p].runs
  /\ run.stage = "submit"
  /\ IF ok
     THEN /\ petalTopics' = petalTopics \cup
                {[topic |-> ConfigOf(p).petalStateTopicId,
                  account_id |-> ConfigOf(p).accountId,
                  state_hash |-> run.proof.stateHash,
                  epoch |-> run.epoch]}
          /\ petalProc' = [petalProc EXCEPT
                             ![p].runs = (@ \ {run}) \cup {[run EXCEPT !.stage = "post"]}]
     ELSE /\ petalTopics' = petalTopics
          /\ petalProc' = [petalProc EXCEPT
                             ![p].runs = @ \ {run},
                             ![p].log = @ \cup {[event |-> "Failed to publish epoch",
                                                 epoch |-> run.epoch]}]
  /\ UNCHANGED << consumerVars, lifeVars, args, result, now, appState, posted, ioVars >>

\* The POST of the proof settles (lines 480-493): the Consumer receives the
\* parsed JSON text of the proof, or the fetch fails and a warning is logged.
PostSettled(p, run, ok) ==
  /\ run \in petalProc[p].runs
  /\ run.stage = "post"
  /\ IF ok
     THEN /\ posted' = posted \cup {ParseJson(Serialize(run.proof)).proof}
          /\ petalProc' = [petalProc EXCEPT ![p].runs = @ \ {run}]
     ELSE /\ posted' = posted
          /\ petalProc' = [petalProc EXCEPT
                             ![p].runs = @ \ {run},
                             ![p].log = @ \cup {[event |-> "Failed to post proof",
                                                 epoch |-> run.epoch]}]
  /\ UNCHANGED << consumerVars, lifeVars, args, result, now, appState, petalTopics, ioVars >>

(* ------------------------------------------------------------------ *)
(* Initial state                                                       *)
(* ------------------------------------------------------------------ *)
\* buildConsumer(config, options) with options.initialHistory
NoRow == [epoch |-> Undefined]

InitConsumerWith(enabled, initialHistory, persist) ==
  /\ publishEnabled = enabled
  /\ persistEnabled = persist
  /\ pendingWrites = << >>
  /\ consensusRows = [e \in Epochs |-> NoRow]
  /\ pollsInFlight = << >>
  /\ delivered = << >>
  /\ proofsByEpoch = [e \in Epochs |-> << >>]
  /\ history = initialHistory
  /\ petalAdapters = [p \in PetalIds |-> NoAdapter]
  /\ metaByEpoch = [e \in Epochs |-> NoMeta]
  /\ metaQueue = << >>
  /\ publishedConsensus = [e \in Epochs |-> NoHash]
  /\ publishingConsensus = [e \in Epochs |-> NoHash]
  /\ publishRetryTimers = {}
  /\ publishRetryAttempts = {}
  /\ petalStateTopicsById = [p \in PetalIds |-> NoString]
  /\ lastTimestamp = 0
  /\ calls = << >>
  /\ floraTopic = << >>
  /\ httpStatus = 0
  /\ httpError = ""
  /\ chunkBuffer = [key \in ChunkKeys |-> NoBuffer]
  /\ InitPetal
  /\ listening = TRUE
  /\ pollTimer = TRUE
  /\ polling = FALSE

InitConsumer(enabled, initialHistory) == InitConsumerWith(enabled, initialHistory, FALSE)

InitProgram(enabled) == InitConsumer(enabled, << >>)

InitWith(enabled) ==
  /\ InitProgram(enabled)
  /\ args = << >>
  /\ result = << >>

Init == InitWith(TRUE)

(* ------------------------------------------------------------------ *)
(* POST /proof with a whole ProofPayload (lines 214-262)               *)
(* ------------------------------------------------------------------ *)
\* Mutation of hasExpectedParticipants: only the number of participants is
\* compared.
hasExpectedParticipants_CountOnly(participants) ==
  Len(participants) =
    IF Len(participantAccounts) > 0 THEN Len(participantAccounts) ELSE expectedPetals

hasExpectedParticipants(participants) ==
  LET expectedCount ==
        IF Len(participantAccounts) > 0 THEN Len(participantAccounts) ELSE expectedPetals
      normalized == sortAccountIds(participants)
  IN  IF expectedCount > 0 /\ Len(participants) # expectedCount THEN FALSE
      ELSE IF Len(participantAccounts) = 0 THEN TRUE
      ELSE IF Len(normalized) # Len(participantAccounts) THEN FALSE
      ELSE \A i \in 1..Len(normalized) : normalized[i] = participantAccounts[i]

TotalProofs == Len(proofsByEpoch[0]) + Len(proofsByEpoch[1])

Reject(error) ==
  /\ httpStatus' = 400
  /\ httpError' = error
  /\ UNCHANGED << petalVars, lifeVars, publishEnabled, chunkBuffer, args, result, proofsByEpoch, history,
                  petalAdapters, metaByEpoch, metaQueue, publishedConsensus,
                  publishingConsensus, publishRetryTimers, publishRetryAttempts,
                  lastTimestamp, calls, floraTopic, ioVars, pendingWrites, delivered >>

\* Mutation of StateTopicMismatch: the binding is never compared.
StateTopicMismatch_Never(existingStateTopic, payload) == FALSE

\* Line 233: existingStateTopic && payload.petalStateTopicId !== existingStateTopic
StateTopicMismatch(existingStateTopic, payload) ==
  existingStateTopic # NoString /\ payload.petalStateTopicId # existingStateTopic

PostProof(payload, max) ==
  LET expectedAccountId ==
        IF payload.petalId \in DOMAIN petalAccountsById
        THEN petalAccountsById[payload.petalId] ELSE NoString
      existingStateTopic == petalStateTopicsById[payload.petalId]
      bound == IF existingStateTopic = NoString
               THEN [petalStateTopicsById EXCEPT ![payload.petalId] = payload.petalStateTopicId]
               ELSE petalStateTopicsById
  IN
  /\ TotalProofs < max
  /\ IF expectedAccountId # NoString /\ payload.petalAccountId # expectedAccountId
     THEN Reject("Invalid petal account") /\ UNCHANGED petalStateTopicsById
     ELSE IF ~hasExpectedParticipants(payload.participants)
     THEN Reject("Unexpected participants") /\ UNCHANGED petalStateTopicsById
     ELSE IF StateTopicMismatch(existingStateTopic, payload)
     THEN Reject("Invalid petal state topic") /\ UNCHANGED petalStateTopicsById
     ELSE IF payload.floraAccountId # floraAccountId
     THEN Reject("Invalid flora account") /\ petalStateTopicsById' = bound
     ELSE IF payload.thresholdFingerprint # thresholdFingerprint
     THEN Reject("Invalid threshold fingerprint") /\ petalStateTopicsById' = bound
     ELSE IF payload.registryTopicId # adapterCategoryTopicId
     THEN Reject("Unexpected registry topic") /\ petalStateTopicsById' = bound
     ELSE /\ Commit(ingestProof(State, payload))
          /\ petalStateTopicsById' = bound
          /\ httpStatus' = 200
          /\ httpError' = ""
          /\ UNCHANGED << petalVars, lifeVars, publishEnabled, chunkBuffer, args, result, lastTimestamp, floraTopic, ioVars, delivered >>

\* POST /proof with a ChunkedProofPayload (lines 196-212).
PostChunk(payload, max) ==
  LET expectedAccountId ==
        IF payload.petalId \in DOMAIN petalAccountsById
        THEN petalAccountsById[payload.petalId] ELSE NoString
      done == ingestChunk(State, chunkBuffer, payload)
  IN
  /\ TotalProofs < max
  /\ IF expectedAccountId # NoString /\ payload.petalAccountId # expectedAccountId
     THEN Reject("Invalid petal account") /\ UNCHANGED petalStateTopicsById
     ELSE IF payload.floraAccountId # floraAccountId
     THEN Reject("Invalid flora account") /\ UNCHANGED petalStateTopicsById
     ELSE /\ Commit(done.st)
          /\ chunkBuffer' = done.buf
          /\ httpStatus' = 200
          /\ httpError' = ""
          /\ UNCHANGED << petalVars, lifeVars, publishEnabled, args, result, petalStateTopicsById,
                          lastTimestamp, floraTopic, ioVars, delivered >>

\* POST /proof with any JSON object that is no chunk (lines 214-262).
PostBody(payload, max) ==
  IF ~isProofPayload([kind |-> "proof", proof |-> payload])
  THEN /\ TotalProofs < max
       /\ Reject("Invalid proof payload")
       /\ UNCHANGED petalStateTopicsById
  ELSE PostProof(payload, max)

(* ------------------------------------------------------------------ *)
(* The state-topic poller (pollMirror)                                 *)
(* ------------------------------------------------------------------ *)
\* A petal of the legacy variant writes its proof to the flora state topic.
LegacyPublish(proof) ==
  /\ Len(floraTopic) < MaxTopic
  /\ floraTopic' = Append(floraTopic, [kind |-> "proof", epoch |-> proof.epoch,
                                       proof |-> proof])
  /\ UNCHANGED << petalVars, lifeVars, publishEnabled, chunkBuffer, args, result, proofsByEpoch, history, petalAdapters, metaByEpoch,
                  metaQueue, publishedConsensus, publishingConsensus, publishRetryTimers,
                  publishRetryAttempts, petalStateTopicsById, lastTimestamp, calls,
                  httpStatus, httpError, ioVars, pendingWrites, delivered >>

\* A message without an epoch field reaches the flora state topic.
OtherPublish ==
  /\ Len(floraTopic) < MaxTopic
  /\ floraTopic' = Append(floraTopic, [kind |-> "other", epoch |-> Undefined])
  /\ UNCHANGED << petalVars, lifeVars, publishEnabled, chunkBuffer, args, result, proofsByEpoch, history, petalAdapters, metaByEpoch,
                  metaQueue, publishedConsensus, publishingConsensus, publishRetryTimers,
                  publishRetryAttempts, petalStateTopicsById, lastTimestamp, calls,
                  httpStatus, httpError, ioVars, pendingWrites, delivered >>

\* A message that carries an epoch field and is no proof (an HCS-17 state_hash
\* message) reaches the flora state topic.
EpochMessage(e) ==
  /\ Len(floraTopic) < MaxTopic
  /\ floraTopic' = Append(floraTopic, [kind |-> "state_hash", epoch |-> e])
  /\ UNCHANGED << petalVars, lifeVars, publishEnabled, chunkBuffer, args, result, proofsByEpoch, history,
                  petalAdapters, metaByEpoch, metaQueue, publishedConsensus,
                  publishingConsensus, publishRetryTimers, publishRetryAttempts,
                  petalStateTopicsById, lastTimestamp, calls, httpStatus, httpError, ioVars, pendingWrites, delivered >>

RemoveAt(seq, i) == SubSeq(seq, 1, i - 1) \o SubSeq(seq, i + 1, Len(seq))

\* Mutation of Skips: no message is skipped.
Skips_Never(ts, cursor) == FALSE

\* Line 235: lastTimestamp && ts && ts <= lastTimestamp (both strings are
\* non-empty: the cursor starts as "0"). Consensus timestamps
\* are compared as numbers: the mirror prints them as seconds.nanoseconds with a
\* fixed number of digits, for which the string order is the numeric order.
Skips(ts, cursor) == ts <= cursor

\* One message of a poll's response: the body of the loop of lines 233-261.
\* Consensus timestamps and sequence numbers are the message's position on the
\* topic. Polls are started by a timer and may overlap, so a response may carry
\* messages an earlier response has already delivered (ts <= cursor); it is in
\* ascending order from the cursor its request was made with, so it never
\* passes over a message.
PollMirror(max) ==
  \E ts \in 1..Len(floraTopic) :
    /\ ts <= lastTimestamp + 1
    /\ IF Skips(ts, lastTimestamp)
       THEN UNCHANGED << lastTimestamp, proofsByEpoch, history, petalAdapters, metaByEpoch,
                         metaQueue, publishedConsensus, publishingConsensus,
                         publishRetryTimers, publishRetryAttempts, calls, pendingWrites, delivered >>
       ELSE LET entry == floraTopic[ts]
                payloadEpoch == entry.epoch
                targetEpoch ==
                  IF payloadEpoch # Undefined THEN payloadEpoch
                  ELSE IF Len(metaQueue) > 0 THEN metaQueue[1] ELSE Undefined
                meta == [consensusTimestamp |-> ts, sequenceNumber |-> ts]
                st1 == IF targetEpoch # Undefined THEN applyMeta(State, targetEpoch, meta)
                       ELSE State
                st2 == IF entry.kind = "proof"
                       THEN ingestProof(st1, [entry.proof EXCEPT
                                                !.hcsMessage = HcsPointer,
                                                !.consensusTimestamp = ts,
                                                !.sequenceNumber = ts])
                       ELSE st1
            IN  /\ entry.kind = "proof" => TotalProofs < max
                /\ lastTimestamp' = ts
                /\ delivered' = Append(delivered, ts)
                /\ Commit(st2)
    /\ UNCHANGED << petalVars, lifeVars, publishEnabled, chunkBuffer, args, result, petalStateTopicsById,
                    floraTopic, httpStatus, httpError, ioVars >>

\* The body of the loop for one message of a response (lines 234-261), on the
\* poller's cursor and the Consumer's maps: acc = [st, lastTimestamp, delivered].
pollEntry(acc, ts) ==
  IF Skips(ts, acc.lastTimestamp) THEN acc
  ELSE LET entry == floraTopic[ts]
           payloadEpoch == entry.epoch
           targetEpoch ==
             IF payloadEpoch # Undefined THEN payloadEpoch
             ELSE IF Len(acc.st.metaQueue) > 0 THEN acc.st.metaQueue[1] ELSE Undefined
           meta == [consensusTimestamp |-> ts, sequenceNumber |-> ts]
           st1 == IF targetEpoch # Undefined THEN applyMeta(acc.st, targetEpoch, meta)
                  ELSE acc.st
           st2 == IF entry.kind = "proof"
                  THEN ingestProof(st1, [entry.proof EXCEPT
                                           !.hcsMessage = HcsPointer,
                                           !.consensusTimestamp = ts,
                                           !.sequenceNumber = ts])
                  ELSE st1
       IN  [st |-> st2, lastTimestamp |-> ts, delivered |-> Append(acc.delivered, ts)]

\* for (const entry of messages): no await inside, so the loop of one response
\* runs to its end before anything else does.
RECURSIVE pollEntries(_, _)
pollEntries(acc, messages) ==
  IF messages = << >> THEN acc
  ELSE pollEntries(pollEntry(acc, Head(messages)), Tail(messages))

pollLimit == 50

MaxPolls == 2        \* pollMirror calls in progress at once

PollFrame ==
  UNCHANGED << petalVars, lifeVars, publishEnabled, chunkBuffer, args, result,
               petalStateTopicsById, floraTopic, httpStatus, httpError, persistEnabled,
               consensusRows >>

\* pollMirror up to `await fetch(url)` (lines 222-227): the url carries the
\* cursor as it is now. The interval timer starts a call whether or not an
\* earlier one has returned.
pollMirror ==
  /\ pollTimer
  /\ Len(pollsInFlight) < MaxPolls
  /\ pollsInFlight' = Append(pollsInFlight, [cursor |-> lastTimestamp,
                                              stage |-> "fetch",
                                              messages |-> << >>])
  /\ UNCHANGED << consumerVars >>
  /\ PollFrame

\* The mirror answers request i: the messages after the request's cursor, in
\* ascending order, at most pollLimit of them, as far as the mirror has
\* caught up with the topic (n of them).
MirrorAnswers(i, n) ==
  LET poll == pollsInFlight[i]
  IN  /\ poll.stage = "fetch"
      /\ n <= pollLimit
      /\ poll.cursor + n <= Len(floraTopic)
      /\ pollsInFlight' = [pollsInFlight EXCEPT
                             ![i].stage = "body",
                             ![i].messages = [k \in 1..n |-> poll.cursor + k]]
      /\ UNCHANGED << consumerVars >>
      /\ PollFrame

\* fetch throws or the response is not ok (lines 228-230 and 263-265): the call
\* returns.
MirrorFails(i) ==
  /\ pollsInFlight[i].stage = "fetch"
  /\ pollsInFlight' = RemoveAt(pollsInFlight, i)
  /\ UNCHANGED << consumerVars >>
  /\ PollFrame

\* The loop of call i over its response (lines 233-262), then the call returns.
pollLoop(i) ==
  LET poll == pollsInFlight[i]
      acc == pollEntries([st |-> State, lastTimestamp |-> lastTimestamp,
                          delivered |-> delivered], poll.messages)
  IN  /\ poll.stage = "body"
      /\ lastTimestamp' = acc.lastTimestamp
      /\ delivered' = acc.delivered
      /\ Commit(acc.st)
      /\ pollsInFlight' = RemoveAt(pollsInFlight, i)
      /\ PollFrame

(* ------------------------------------------------------------------ *)
(* Leader publication                                                  *)
(* ------------------------------------------------------------------ *)
\* The proofs a call validates: the array it was handed (for a retry, the bucket).
CallProofs(c) == IF c.live THEN proofsByEpoch[c.epoch] ELSE c.proofs

ConsensusMessage(c) == [kind |-> "consensus", epoch |-> c.epoch, stateHash |-> c.stateHash]

PublishFrame ==
  UNCHANGED << petalVars, lifeVars, publishEnabled, chunkBuffer, args, result, proofsByEpoch, history, petalAdapters, metaByEpoch, metaQueue,
               publishedConsensus, publishingConsensus, publishRetryTimers,
               publishRetryAttempts, petalStateTopicsById, lastTimestamp, httpStatus,
               httpError, ioVars, pendingWrites, delivered >>

\* Mutation of ValidationBlocks: the publication goes ahead whatever the
\* validation found.
ValidationBlocks_Never(proofs, valid) == FALSE

\* consumer.ts 243: validation.invalid.length > 0
ValidationBlocks(proofs, valid) == \E k \in 1..Len(proofs) : ~valid[k]

\* selectRoundLeader(entry.epoch, orderedMemberAccounts), for each epoch.
roundLeader == [e \in Epochs |-> selectRoundLeader(e, participantAccounts)]

\* The body of options.publishConsensus (consumer.ts 224-267) for call i:
\* leader election, validation of every proof on its petal state topic (valid:
\* what the mirror showed for each proof), then the submission.
\* outcome: "ok", "noTimestamp" (getRecord failed), "lost" (execute threw),
\* "late" (the message landed, getReceipt threw). Once the topic holds MaxTopic
\* messages every further submission is lost.
publishConsensus(i, valid, outcome) ==
  LET c == calls[i]
      proofs == CallProofs(c)
      leaderAccountId == roundLeader[c.epoch]
      verdict == IF \A k \in 1..Len(proofs) : valid[k] THEN "all" ELSE "some-invalid"
      ts == Len(floraTopic) + 1
  IN
  /\ c.stage = "running"
  /\ IF leaderAccountId = NoString
     THEN /\ calls' = [calls EXCEPT ![i].stage = "null"]
          /\ UNCHANGED floraTopic
     ELSE IF ValidationBlocks(proofs, valid)
     THEN /\ calls' = [calls EXCEPT ![i].stage = "null", ![i].validated = verdict]
          /\ UNCHANGED floraTopic
     ELSE IF outcome = "lost" \/ Len(floraTopic) >= MaxTopic
     THEN /\ calls' = [calls EXCEPT ![i].stage = "throw", ![i].validated = verdict]
          /\ UNCHANGED floraTopic
     ELSE IF outcome = "late"
     THEN /\ calls' = [calls EXCEPT ![i].stage = "throw", ![i].validated = verdict]
          /\ floraTopic' = Append(floraTopic, ConsensusMessage(c))
     ELSE /\ calls' = [calls EXCEPT
                         ![i].stage = "meta",
                         ![i].validated = verdict,
                         ![i].meta = [consensusTimestamp |->
                                        IF outcome = "ok" THEN ts ELSE Undefined,
                                      sequenceNumber |-> ts]]
          /\ floraTopic' = Append(floraTopic, ConsensusMessage(c))
  /\ PublishFrame

\* The failure branch of .then (no meta) and the .catch handler: count the
\* attempt and arm the retry timer. The count only feeds the timer's delay,
\* which the model does not measure: only the presence of the key is kept.
PublishFailed(st, epoch) ==
  [st EXCEPT
     !.publishRetryAttempts = @ \cup {epoch},
     !.publishRetryTimers = @ \cup {epoch}]

\* The success branch of .then (lines 157-170).
PublishSucceeded(st, c) ==
  LET idx == FindIndexByEpoch(st.history, c.epoch)
      st1 == [st EXCEPT
                !.publishRetryAttempts = @ \ {c.epoch},
                !.publishedConsensus[c.epoch] = c.stateHash]
  IN  IF idx = 0 THEN st1
      ELSE persistConsensus([st1 EXCEPT !.history[idx] = StampEntry(@, c.meta)],
                            StampEntry(st1.history[idx], c.meta))

\* .finally (line 189)
PublishFinally(st, epoch) == [st EXCEPT !.publishingConsensus[epoch] = NoHash]

\* The promise of call i settles: .then / .catch, then .finally.
PublishSettled(i) ==
  LET c == calls[i]
      st0 == [State EXCEPT !.calls = RemoveAt(@, i)]
      st1 == IF c.stage = "meta" THEN PublishSucceeded(st0, c)
             ELSE PublishFailed(st0, c.epoch)
  IN
  /\ c.stage # "running"
  /\ Commit(PublishFinally(st1, c.epoch))
  /\ UNCHANGED << petalVars, lifeVars, publishEnabled, chunkBuffer, args, result, petalStateTopicsById, lastTimestamp, floraTopic,
                  httpStatus, httpError, ioVars, delivered >>

\* The retry timer of an epoch fires (lines 146-152).
RetryTimerFires(epoch) ==
  LET st0 == [State EXCEPT !.publishRetryTimers = @ \ {epoch}]
      idx == FindIndexByEpoch(history, epoch)
  IN
  /\ epoch \in publishRetryTimers
  /\ Commit(IF idx = 0 THEN st0
            ELSE scheduleConsensusPublish(st0, history[idx], proofsByEpoch[epoch], TRUE))
  /\ UNCHANGED << petalVars, lifeVars, publishEnabled, chunkBuffer, args, result, petalStateTopicsById, lastTimestamp, floraTopic,
                  httpStatus, httpError, ioVars, delivered >>

(* ------------------------------------------------------------------ *)
(* Persistence (saveConsensusEntry)                                    *)
(* ------------------------------------------------------------------ *)
\* One pending saveConsensusEntry call completes: INSERT ... ON CONFLICT (epoch)
\* DO UPDATE sets every column of the epoch's row from the entry it was called
\* with (an absent optional field is stored as null, which the model writes
\* Undefined / NoString as in the entry). Each call is a pool.query of its own,
\* none is awaited by its caller, so they complete in any order.
saveConsensusEntry(i) ==
  LET entry == pendingWrites[i]
  IN  /\ consensusRows' = [consensusRows EXCEPT ![entry.epoch] = entry]
      /\ pendingWrites' = RemoveAt(pendingWrites, i)
      /\ UNCHANGED << petalVars, lifeVars, args, result, publishEnabled, proofsByEpoch,
                      history, petalAdapters, metaByEpoch, metaQueue, publishedConsensus,
                      publishingConsensus, publishRetryTimers, publishRetryAttempts,
                      petalStateTopicsById, lastTimestamp, calls, floraTopic, httpStatus,
                      httpError, chunkBuffer, delivered, persistEnabled, pollsInFlight >>

(* ------------------------------------------------------------------ *)
(* The poll timer and stop                                             *)
(* ------------------------------------------------------------------ *)
\* The interval of createStateTopicPoller fires (lines 267-271): a pollMirror
\* call begins.
PollTimerFires ==
  /\ pollTimer
  /\ polling' = TRUE
  /\ UNCHANGED << consumerVars, args, result, petalVars, listening, pollTimer, ioVars >>

\* A pollMirror call has gone through the messages of its response.
PollReturns ==
  /\ polling
  /\ polling' = FALSE
  /\ UNCHANGED << consumerVars, args, result, petalVars, listening, pollTimer, ioVars >>

\* stop of startConsumer (lines 275-278): server.close(), then the poller's
\* stop, which clears the interval. Nothing else is touched.
Stop ==
  /\ listening' = FALSE
  /\ pollTimer' = FALSE
  /\ UNCHANGED << consumerVars, args, result, petalVars, polling, ioVars >>

(* ------------------------------------------------------------------ *)
(* Reads                                                               *)
(* ------------------------------------------------------------------ *)
NoEntry == [epoch |-> Undefined]

getLatestPublishedConsensus ==
  LET found == {i \in 1..Len(history) : history[i].consensusTimestamp # Undefined}
  IN  IF found = {} THEN NoEntry
      ELSE history[CHOOSE i \in found : \A j \in found : j <= i]

getLatest ==
  IF publishEnabled THEN getLatestPublishedConsensus
  ELSE IF Len(history) > 0 THEN history[Len(history)] ELSE NoEntry

(* ------------------------------------------------------------------ *)
(* Specifications                                                      *)
(* ------------------------------------------------------------------ *)
PublishOutcomes == {"ok", "noTimestamp", "lost", "late"}

\* What the mirror may show for the proofs of call i: a valid publication for
\* each of them, or for all but one.
Validations(i) ==
  LET n == Len(CallProofs(calls[i]))
  IN  {[k \in 1..n |-> TRUE]} \cup {[k \in 1..n |-> k # bad] : bad \in 1..n}

PublishInputs ==
  {buildProof("petal-1", 0, "A"), buildProof("petal-2", 0, "A"),
   buildProof("petal-1", 1, "A"), WithLogFields(buildProof("petal-2", 1, "A"))}

Next ==
  \/ \E payload \in PublishInputs : PostProof(payload, MaxProofs)
  \/ \E i \in 1..Len(calls) : \E valid \in Validations(i) :
       \E outcome \in PublishOutcomes : publishConsensus(i, valid, outcome)
  \/ \E i \in 1..Len(calls) : PublishSettled(i)
  \/ \E epoch \in Epochs : RetryTimerFires(epoch)
  \/ OtherPublish
  \/ PollMirror(MaxProofs)

Spec == Init /\ [][Next]_vars

\* Intake and aggregation alone: the Consumer built without publishConsensus.
AggInputs ==
  {buildProof("petal-1", 0, "A"), buildProof("petal-2", 0, "A"),
   buildProof("petal-3", 0, "B"), buildProof("petal-4", 0, "B"),
   Tampered(buildProof("petal-2", 0, "A")), buildProof("petal-1", 1, "A")}

LegacyInputs == {buildProof("petal-1", 0, "A")}

InitAgg == InitWith(FALSE)

NextAgg ==
  \/ \E payload \in AggInputs : PostProof(payload, MaxAggProofs)
  \/ \E proof \in LegacyInputs : LegacyPublish(proof)
  \/ OtherPublish
  \/ PollMirror(MaxAggProofs)

SpecAgg == InitAgg /\ [][NextAgg]_vars

\* One epoch in which petals resend their proofs, with leader publication.
DupInputs == {buildProof("petal-1", 0, "A"), buildProof("petal-2", 0, "B")}

NextDup ==
  \/ \E payload \in DupInputs : PostProof(payload, MaxDupProofs)
  \/ \E i \in 1..Len(calls) : \E valid \in Validations(i) :
       \E outcome \in PublishOutcomes : publishConsensus(i, valid, outcome)
  \/ \E i \in 1..Len(calls) : PublishSettled(i)
  \/ \E epoch \in Epochs : RetryTimerFires(epoch)

SpecDup == Init /\ [][NextDup]_vars

\* The same with a ledger whose submissions either fail outright or return
\* their receipt: every message on the flora state topic is one that
\* publishConsensusToStateTopic returned metadata for.
SettledOutcomes == {"ok", "noTimestamp", "lost"}

NextOnce ==
  \/ \E payload \in DupInputs : PostProof(payload, MaxDupProofs)
  \/ \E i \in 1..Len(calls) : \E valid \in Validations(i) :
       \E outcome \in SettledOutcomes : publishConsensus(i, valid, outcome)
  \/ \E i \in 1..Len(calls) : PublishSettled(i)
  \/ \E epoch \in Epochs : RetryTimerFires(epoch)

SpecOnce == Init /\ [][NextOnce]_vars

\* The Consumer as consumer.ts builds it, with persistConsensus:
\* saveConsensusEntry: one epoch is aggregated, published and read back from
\* the flora state topic while its writes complete.
MaxStoreProofs == 2

StoreInputs == {buildProof("petal-1", 0, "A"), buildProof("petal-2", 0, "A")}

InitStore ==
  /\ InitConsumerWith(TRUE, << >>, TRUE)
  /\ args = << >>
  /\ result = << >>

NextStore ==
  \/ \E payload \in StoreInputs : PostProof(payload, MaxStoreProofs)
  \/ \E i \in 1..Len(calls) : \E valid \in Validations(i) :
       \E outcome \in PublishOutcomes : publishConsensus(i, valid, outcome)
  \/ \E i \in 1..Len(calls) : PublishSettled(i)
  \/ \E epoch \in Epochs : RetryTimerFires(epoch)
  \/ PollMirror(MaxStoreProofs)
  \/ \E i \in 1..Len(pendingWrites) : saveConsensusEntry(i)

SpecStore == InitStore /\ [][NextStore]_vars

\* The poller with calls that overlap: messages reach the flora state topic
\* while up to MaxPolls pollMirror calls are between their fetch and their loop.
NextPoll ==
  \/ \E proof \in LegacyInputs : LegacyPublish(proof)
  \/ \E e \in Epochs : EpochMessage(e)
  \/ OtherPublish
  \/ pollMirror
  \/ \E i \in 1..Len(pollsInFlight) : \E n \in 0..MaxTopic : MirrorAnswers(i, n)
  \/ \E i \in 1..Len(pollsInFlight) : MirrorFails(i)
  \/ \E i \in 1..Len(pollsInFlight) : pollLoop(i)

SpecPoll == InitAgg /\ [][NextPoll]_vars

\* Intake policy: whole proofs that break one rule each, chunked proofs, and a
\* proof that reaches the flora state topic without passing POST /proof.
WrongFlora ==
  [buildProof("petal-2", 0, "A") EXCEPT !.floraAccountId = "0.0.0"]

IntakeInputs ==
  {buildProof("petal-1", 0, "A"),
   [buildProof("petal-1", 0, "A") EXCEPT !.petalStateTopicId = "0.0.799"],
   [buildProof("petal-1", 0, "A") EXCEPT !.petalAccountId = "0.0.123"],
   WrongFlora,
   [buildProof("petal-2", 0, "A") EXCEPT !.thresholdFingerprint = "other-threshold"],
   [buildProof("petal-2", 0, "A") EXCEPT !.registryTopicId = "0.0.601"],
   [buildProof("petal-2", 0, "A") EXCEPT !.participants = << "0.0.10", "0.0.11", "0.0.11" >>],
   [buildProof("petal-2", 0, "A") EXCEPT !.participants = << "0.0.12", "0.0.10", "0.0.11" >>]}

\* The proof a petal sends in chunks, and where its text is cut: inside the
\* leading fields and inside the records, or between the records.
ChunkedProof == buildProof("petal-3", 0, "A")
ChunkCuts == {<< 1, 4 >>, << 3, 5 >>}

ChunkInputs ==
  {ChunksOf(ChunkedProof, cut[1], cut[2])[i] : cut \in ChunkCuts, i \in 1..3}
    \cup {[ChunksOf(ChunkedProof, 1, 4)[1] EXCEPT !.floraAccountId = "0.0.0"]}

NextIntake ==
  \/ \E payload \in IntakeInputs : PostProof(payload, MaxIntakeProofs)
  \/ \E payload \in ChunkInputs : PostChunk(payload, MaxIntakeProofs)
  \/ LegacyPublish(WrongFlora)
  \/ PollMirror(MaxIntakeProofs)

SpecIntake == InitAgg /\ [][NextIntake]_vars

\* Bodies with a field missing, whole and in chunks.
MaxShapeProofs == 3

WithoutStateTopic(proof) == [proof EXCEPT !.petalStateTopicId = NoString]

ShapeInputs ==
  {buildProof("petal-1", 0, "A"), buildProof("petal-2", 0, "A"),
   WithoutStateTopic(buildProof("petal-2", 0, "A")),
   WithoutStateTopic(buildProof("petal-1", 1, "A")),
   [buildProof("petal-1", 0, "A") EXCEPT !.stateHash = NoHash],
   [buildProof("petal-2", 1, "A") EXCEPT !.epoch = Undefined],
   [buildProof("petal-2", 1, "A") EXCEPT !.petalAccountId = "  "]}

ShapeChunks ==
  {ChunksOf(WithoutStateTopic(ChunkedProof), 1, 4)[i] : i \in 1..3}

NextShape ==
  \/ \E payload \in ShapeInputs : PostBody(payload, MaxShapeProofs)
  \/ \E payload \in ShapeChunks : PostChunk(payload, MaxShapeProofs)

SpecShape == InitAgg /\ [][NextShape]_vars

\* Proofs POSTed by the petals while messages that carry an epoch arrive on
\* the flora state topic, in any interleaving.
MetaInputs ==
  {buildProof("petal-1", 0, "A"), buildProof("petal-2", 0, "A"),
   buildProof("petal-1", 1, "A"), buildProof("petal-2", 1, "A")}

NextMeta ==
  \/ \E payload \in MetaInputs : PostProof(payload, MaxMetaProofs)
  \/ \E e \in Epochs : EpochMessage(e)
  \/ PollMirror(MaxMetaProofs)

SpecMeta == InitAgg /\ [][NextMeta]_vars

(* ------------------------------------------------------------------ *)
(* Round leader election as a function of its arguments                *)
(* ------------------------------------------------------------------ *)
MaxLeaderEpoch == 3
MaxLeaderIds == 3

\* Account ids as a caller may pass them: padded with blanks, blank, with a
\* leading zero, with fewer components.
LeaderIds == {"0.0.9", "0.0.10", " 0.0.10", "0.0.010", "0.0.11 ", "0.1", "  "}

LeaderLists ==
  UNION {[1..n -> LeaderIds] : n \in 0..MaxLeaderIds}

InitLeader ==
  /\ InitProgram(FALSE)
  /\ args \in [epoch : (0 - MaxLeaderEpoch)..MaxLeaderEpoch, accountIds : LeaderLists]
  /\ result = << >>

\* const leaderAccountId = selectRoundLeader(entry.epoch, orderedMemberAccounts)
ElectLeader ==
  /\ result = << >>
  /\ result' = << selectRoundLeader(args.epoch, args.accountIds) >>
  /\ UNCHANGED << petalVars, lifeVars, publishEnabled, chunkBuffer, args, proofsByEpoch, history,
                  petalAdapters, metaByEpoch, metaQueue, publishedConsensus,
                  publishingConsensus, publishRetryTimers, publishRetryAttempts,
                  petalStateTopicsById, lastTimestamp, calls, floraTopic,
                  httpStatus, httpError, ioVars, pendingWrites, delivered >>

NextLeader == ElectLeader

SpecLeader == InitLeader /\ [][NextLeader]_vars

(* ------------------------------------------------------------------ *)
(* canonicalize as a function of any JSON value                        *)
(* ------------------------------------------------------------------ *)
\* A value is a tagged tuple: << "num", n >>, << "nan" >>, << "inf" >>,
\* << "str", s >>, << "undef" >>, << "arr", elements >> or << "obj", entries >>,
\* the entries of an object being its << key, value >> pairs in the order
\* Object.entries lists them.
MaxKeys == 2

JsonKeys == {"a", "b", "9", "10"}

\* The keys in the order of the < operator on strings (UTF-16 code units).
KeyOrder == << "10", "9", "a", "b" >>
KeyRank(k) == CHOOSE i \in 1..Len(KeyOrder) : KeyOrder[i] = k
KeyLess(a, b) == KeyRank(a) < KeyRank(b)

\* A key that is a canonical array index, and the index it denotes.
IsIndexKey(k) == k \in {"9", "10"}
IndexOf(k) == IF k = "9" THEN 9 ELSE 10

\* acc[key] = val on an ordinary object: an existing property keeps its
\* place; a new index key goes among the index keys, which come first in
\* ascending numeric order; any other new key goes last.
RECURSIVE SetProperty(_, _, _)
SetProperty(entries, key, val) ==
  IF entries = << >> THEN << << key, val >> >>
  ELSE LET head == entries[1]
       IN  IF head[1] = key THEN << << key, val >> >> \o Tail(entries)
           ELSE IF /\ IsIndexKey(key)
                   /\ ~\E i \in 1..Len(entries) : entries[i][1] = key
                   /\ (~IsIndexKey(head[1]) \/ IndexOf(key) < IndexOf(head[1]))
           THEN << << key, val >> >> \o entries
           ELSE << head >> \o SetProperty(Tail(entries), key, val)

\* The object an object literal or a sequence of assignments builds.
RECURSIVE ObjectOf(_)
ObjectOf(insertions) ==
  IF insertions = << >> THEN << "obj", << >> >>
  ELSE LET init == ObjectOf(SubSeq(insertions, 1, Len(insertions) - 1))
           last == insertions[Len(insertions)]
       IN  << "obj", SetProperty(init[2], last[1], last[2]) >>

normalizeNumber(value) == IF value[1] \in {"nan", "inf"} THEN << "num", 0 >> ELSE value

RECURSIVE InsertByKey(_, _)
InsertByKey(sorted, entry) ==
  IF sorted = << >> THEN << entry >>
  ELSE IF KeyLess(entry[1], sorted[1][1]) THEN << entry >> \o sorted
  ELSE << sorted[1] >> \o InsertByKey(Tail(sorted), entry)

\* entries.sort(([a], [b]) => (a < b ? -1 : a > b ? 1 : 0))
RECURSIVE SortByKey(_)
SortByKey(entries) ==
  IF entries = << >> THEN << >>
  ELSE InsertByKey(SortByKey(SubSeq(entries, 1, Len(entries) - 1)), entries[Len(entries)])

RECURSIVE normalizeValue(_)
RECURSIVE ReduceEntries(_, _)
\* sortedEntries.reduce((acc, [key, val]) => { acc[key] = normalizeValue(val); ... }, {})
ReduceEntries(acc, sortedEntries) ==
  IF sortedEntries = << >> THEN acc
  ELSE ReduceEntries(SetProperty(acc, sortedEntries[1][1],
                                 normalizeValue(sortedEntries[1][2])),
                     Tail(sortedEntries))

sortObjectKeys(value) ==
  LET defined == SelectSeq(value[2], LAMBDA entry : entry[2] # << "undef" >>)
  IN  << "obj", ReduceEntries(<< >>, SortByKey(defined)) >>

normalizeValue(value) ==
  IF value[1] = "arr"
  THEN << "arr", [i \in 1..Len(value[2]) |-> normalizeValue(value[2][i])] >>
  ELSE IF value[1] = "obj" THEN sortObjectKeys(value)
  ELSE IF value[1] \in {"num", "nan", "inf"} THEN normalizeNumber(value)
  ELSE value

\* JSON.stringify, as the sequence of the pieces of its text.
RECURSIVE JsonStringify(_)
RECURSIVE StringifyElements(_)
RECURSIVE StringifyEntries(_, _)
StringifyElements(elements) ==
  IF elements = << >> THEN << >>
  ELSE (IF elements[1] = << "undef" >> THEN << "null" >> ELSE JsonStringify(elements[1]))
         \o (IF Len(elements) > 1 THEN << "," >> ELSE << >>)
         \o StringifyElements(Tail(elements))

StringifyEntries(entries, first) ==
  IF entries = << >> THEN << >>
  ELSE IF entries[1][2] = << "undef" >> THEN StringifyEntries(Tail(entries), first)
  ELSE (IF first THEN << >> ELSE << "," >>)
         \o << entries[1][1], ":" >> \o JsonStringify(entries[1][2])
         \o StringifyEntries(Tail(entries), FALSE)

JsonStringify(value) ==
  IF value[1] = "num" THEN << ToString(value[2]) >>
  ELSE IF value[1] \in {"nan", "inf"} THEN << "null" >>
  ELSE IF value[1] = "str" THEN << "'" \o value[2] \o "'" >>
  ELSE IF value[1] = "arr" THEN << "[" >> \o StringifyElements(value[2]) \o << "]" >>
  ELSE IF value[1] = "obj" THEN << "{" >> \o StringifyEntries(value[2], TRUE) \o << "}" >>
  ELSE << >>

\* canonicalize of any value (lines 66-69)
canonicalizeValue(value) == JsonStringify(normalizeValue(value))

\* The property values the objects of the checks hold.
JsonLeaves ==
  {<< "num", 1 >>, << "nan" >>, << "inf" >>, << "undef" >>,
   << "arr", << << "num", 2 >>, << "nan" >>, << "num", 1 >> >> >>}

Injective(f) == \A i \in DOMAIN f : \A j \in DOMAIN f : f[i] = f[j] => i = j

\* Assignments of distinct keys, in every order.
Insertions ==
  UNION {{[i \in 1..n |-> << keys[i], vals[i] >>] :
            keys \in {f \in [1..n -> JsonKeys] : Injective(f)},
            vals \in [1..n -> JsonLeaves]} : n \in 0..MaxKeys}

\* The same assignments in another order, with or without the keys whose
\* value is undefined.
Variants(insertions) ==
  LET n == Len(insertions)
      reordered == {[i \in 1..n |-> insertions[f[i]]] :
                      f \in {g \in [1..n -> 1..n] : Injective(g)}}
  IN  reordered \cup
        {SelectSeq(r, LAMBDA entry : entry[2] # << "undef" >>) : r \in reordered}

InitCanon ==
  /\ InitProgram(FALSE)
  /\ args \in UNION {{[a |-> ins, b |-> other] : other \in Variants(ins)} :
                       ins \in Insertions}
  /\ result = << >>

\* canonicalize(a) and canonicalize(b)
Canonicalize ==
  /\ result = << >>
  /\ result' = [a |-> canonicalizeValue(ObjectOf(args.a)),
                b |-> canonicalizeValue(ObjectOf(args.b)),
                normalized |-> normalizeValue(ObjectOf(args.a))]
  /\ UNCHANGED << consumerVars, petalVars, lifeVars, args, ioVars >>

NextCanon == Canonicalize

SpecCanon == InitCanon /\ [][NextCanon]_vars

(* ------------------------------------------------------------------ *)
(* aggregateConsensus as a function of the proofs and the account list *)
(* ------------------------------------------------------------------ *)
\* The account a petal is started with: its provisioned account, or the
\* petal's own label.
PetalAccountIds(p) == {PetalAccount(p), p}

\* The participant lists a proof may carry.
ProofParticipants ==
  {participantAccounts, << >>, << "petal-1", " 0.0.10" >>, << "petal-1", "petal-2", "petal-3" >>}

ParticipantProofs(p, values) ==
  {buildProofOf(AdapterRecords(v, 0), 0,
                [PetalConfig(p) EXCEPT !.accountId = account, !.participants = parts],
                adapterFingerprints) :
     v \in values, account \in PetalAccountIds(p), parts \in ProofParticipants}

\* The account list of the Consumer: none, or the provisioned accounts.
BootstrapParticipants == {<< >>, participantAccounts}

InitParticipants ==
  /\ InitProgram(FALSE)
  /\ args \in [proofs : {<< first, second >> :
                            first \in ParticipantProofs("petal-1", {"A"}),
                            second \in ParticipantProofs("petal-2", {"A", "B"})},
                participants : BootstrapParticipants]
  /\ result = << >>

\* aggregateConsensus(0, proofs, quorum, thresholdFingerprint, participants)
Aggregate ==
  /\ result = << >>
  /\ result' = aggregateConsensus(0, args.proofs, quorum, thresholdFingerprint,
                                  args.participants)
  /\ UNCHANGED << consumerVars, petalVars, lifeVars, args, ioVars >>

NextParticipants == Aggregate

SpecParticipants == InitParticipants /\ [][NextParticipants]_vars

(* ------------------------------------------------------------------ *)
(* validateProofOnStateTopic as a function of the fetched messages     *)
(* ------------------------------------------------------------------ *)
MaxMessages == 1

\* `hcs17:${epoch}`
MemoOf(epoch) == "hcs17:" \o ToString(epoch)

\* What decodeMirrorMessage returns for the messages of a petal state topic:
\* null (kind "none": no message text, or text that is no JSON), or an object
\* with the fields p/op right or wrong, and epoch and m present or absent.
DecodedMessages ==
  {[kind |-> "none", state_hash |-> NoHash, account_id |-> NoString,
    epoch |-> Undefined, m |-> NoString]}
  \cup [kind : {"hcs-17 state_hash", "hcs-17 other", "other state_hash"},
        state_hash : {ComputeStateHash(AdapterRecords("A", 0), thresholdFingerprint,
                                       adapterFingerprints, adapterCategoryTopicId),
                      ComputeStateHash(AdapterRecords("B", 0), thresholdFingerprint,
                                       adapterFingerprints, adapterCategoryTopicId)},
        account_id : {PetalAccount("petal-1"), PetalAccount("petal-2")},
        epoch : {Undefined, 0, 1},
        m : {NoString, MemoOf(0), MemoOf(1)}]

NoPayload == [stateHash |-> NoHash]

\* parseStateHashPayload (lines 93-109): null, or the four fields.
parseStateHashPayload(value) ==
  IF value.kind # "hcs-17 state_hash" THEN NoPayload
  ELSE [stateHash |-> value.state_hash, accountId |-> value.account_id,
        epoch |-> value.epoch, memo |-> value.m]

\* Mutation of EpochMatches: a matching memo is enough whatever the epoch
\* field says.
EpochMatches_Either(parsed, proof) ==
  parsed.epoch = proof.epoch \/ parsed.memo = MemoOf(proof.epoch)

\* Lines 155-160: a numeric epoch decides alone; the memo counts only when the
\* message has no numeric epoch.
EpochMatches(parsed, proof) ==
  LET memoMatch == parsed.memo = MemoOf(proof.epoch)
  IN  IF parsed.epoch # Undefined THEN parsed.epoch = proof.epoch ELSE memoMatch

\* One attempt of validateProofOnStateTopic on the messages its fetch returned;
\* the function repeats the attempt until one succeeds or attempts run out.
validateProofOnStateTopic(proof, messages) ==
  IF proof.petalStateTopicId = NoString THEN FALSE
  ELSE \E i \in 1..Len(messages) :
          LET parsed == parseStateHashPayload(messages[i])
          IN  /\ parsed # NoPayload
              /\ parsed.stateHash = proof.stateHash
              /\ parsed.accountId = proof.petalAccountId
              /\ EpochMatches(parsed, proof)

InitValidate ==
  /\ InitProgram(FALSE)
  /\ args \in [proof : {buildProof("petal-1", 0, "A"),
                        WithoutStateTopic(buildProof("petal-1", 0, "A"))},
                messages : UNION {[1..n -> DecodedMessages] : n \in 0..MaxMessages}]
  /\ result = << >>

Validate ==
  /\ result = << >>
  /\ result' = [ok |-> validateProofOnStateTopic(args.proof, args.messages)]
  /\ UNCHANGED << consumerVars, petalVars, lifeVars, args, ioVars >>

NextValidate == Validate

SpecValidate == InitValidate /\ [][NextValidate]_vars

(* ------------------------------------------------------------------ *)
(* Publication with the validation read from the petal state topics    *)
(* ------------------------------------------------------------------ *)
MaxLiveProofs == 2     \* proofs POSTed
MaxLater == 6          \* messages a petal submits after the one of epoch 0

\* The limit validateProofOnStateTopic passes to fetchTopicMessages.
fetchLimit == 6

\* fetchTopicMessages (lines 121-132) with order=desc: the `limit` latest
\* messages of the topic, latest first, decoded. A petal submits one message
\* per epoch in ascending epochs, with the memo and no epoch field.
fetchTopicMessages(topicId, limit) ==
  LET onTopic == {msg \in petalTopics : msg.topic = topicId}
      Newer(msg) == Cardinality({x \in onTopic : x.epoch > msg.epoch})
      kept == {msg \in onTopic : Newer(msg) < limit}
      At(i) == CHOOSE msg \in kept : Newer(msg) = i - 1
  IN  [i \in 1..Cardinality(kept) |->
         [kind |-> "hcs-17 state_hash", state_hash |-> At(i).state_hash,
          account_id |-> At(i).account_id, epoch |-> Undefined,
          m |-> MemoOf(At(i).epoch)]]

\* validateProofsOnStateTopics (lines 169-195) when the mirror answers.
MirrorValidation(i) ==
  LET proofs == CallProofs(calls[i])
  IN  [k \in 1..Len(proofs) |->
         validateProofOnStateTopic(
           proofs[k], fetchTopicMessages(proofs[k].petalStateTopicId, fetchLimit))]

\* The same when the mirror does not answer: every fetch yields no message.
MirrorSilent(i) == [k \in 1..Len(CallProofs(calls[i])) |-> FALSE]

\* Petal p submits the state_hash message of its next epoch to its topic
\* (petal.ts 421-433).
PetalSubmits(p) ==
  LET topicId == PetalStateTopic(p)
      epoch == Cardinality({msg \in petalTopics : msg.topic = topicId})
  IN  /\ epoch <= MaxLater
      /\ petalTopics' = petalTopics \cup
            {[topic |-> topicId, account_id |-> PetalAccount(p),
              state_hash |-> buildProof(p, epoch, "A").stateHash, epoch |-> epoch]}
      /\ UNCHANGED << consumerVars, lifeVars, args, result, now, appState, petalProc, posted, ioVars >>

LiveInputs == {buildProof("petal-1", 0, "A"), buildProof("petal-2", 0, "A")}

\* A publishConsensus call with the mirror and the ledger answering.
AnsweredPublish == \E i \in 1..Len(calls) : publishConsensus(i, MirrorValidation(i), "ok")

NextLive ==
  \/ \E payload \in LiveInputs : PostProof(payload, MaxLiveProofs)
  \/ \E p \in {"petal-1", "petal-2"} : PetalSubmits(p)
  \/ AnsweredPublish
  \/ \E i \in 1..Len(calls) : publishConsensus(i, MirrorValidation(i), "lost")
  \/ \E i \in 1..Len(calls) : publishConsensus(i, MirrorSilent(i), "ok")
  \/ \E i \in 1..Len(calls) : PublishSettled(i)
  \/ \E epoch \in Epochs : RetryTimerFires(epoch)

\* Promises settle and timers fire; the mirror and the ledger answer again and
\* again.
SpecLive ==
  /\ Init
  /\ [][NextLive]_vars
  /\ WF_vars(\E i \in 1..Len(calls) : PublishSettled(i))
  /\ WF_vars(\E epoch \in Epochs : RetryTimerFires(epoch))
  /\ SF_vars(AnsweredPublish)

\* The Consumer started on a stored history (loadConsensusHistory returns the
\* rows in ascending order of epoch).
MaxHistProofs == 2

\* The entry of epoch e as an earlier run of the Consumer stored it.
StoredEntry(e) ==
  aggregateConsensus(e, << buildProof("petal-1", e, "A"), buildProof("petal-2", e, "A") >>,
                     quorum, thresholdFingerprint, participantAccounts).entry

InitialHistories == {<< >>, << StoredEntry(1) >>}

InitHist ==
  /\ \E initialHistory \in InitialHistories : InitConsumer(TRUE, initialHistory)
  /\ args = << >>
  /\ result = << >>

NextHist ==
  \/ \E payload \in PublishInputs : PostProof(payload, MaxHistProofs)
  \/ \E i \in 1..Len(calls) : \E valid \in Validations(i) :
       \E outcome \in PublishOutcomes : publishConsensus(i, valid, outcome)
  \/ \E i \in 1..Len(calls) : PublishSettled(i)
  \/ \E epoch \in Epochs : RetryTimerFires(epoch)
  \/ OtherPublish
  \/ PollMirror(MaxHistProofs)

SpecHist == InitHist /\ [][NextHist]_vars

\* The Consumer with leader publication, from start to stop and after.
MaxStopProofs == 2

StopInputs == {buildProof("petal-1", 0, "A"), buildProof("petal-2", 0, "A")}

NextStop ==
  \/ \E payload \in StopInputs : listening /\ PostProof(payload, MaxStopProofs)
  \/ \E i \in 1..Len(calls) : \E valid \in Validations(i) :
       \E outcome \in PublishOutcomes : publishConsensus(i, valid, outcome)
  \/ \E i \in 1..Len(calls) : PublishSettled(i)
  \/ \E epoch \in Epochs : RetryTimerFires(epoch)
  \/ PollTimerFires
  \/ polling /\ PollMirror(MaxStopProofs)
  \/ PollReturns
  \/ Stop

SpecStop == Init /\ [][NextStop]_vars

\* Two petals of one flora that boot against the same store and run epochs.
RunsOf(p) == petalProc[p].runs

NextPetal ==
  \/ Tick
  \/ \E p \in PetalNodes : ReadOrigin(p)
  \/ \E p \in PetalNodes : PersistOrigin(p)
  \/ \E p \in PetalNodes : ExecuteEpoch(p)
  \/ \E p \in PetalNodes : \E run \in RunsOf(p) : \E adapters \in AdapterLists :
       \E v \in RecordVariants : \E failed \in {{}, {"binance"}, {"binance", "coingecko"}} :
          AdaptersSettled(p, run, adapters, v, failed)
  \/ \E p \in PetalNodes : \E run \in RunsOf(p) : \E ok \in BOOLEAN :
       SubmitSettled(p, run, ok)
  \/ \E p \in PetalNodes : \E run \in RunsOf(p) : \E ok \in BOOLEAN :
       PostSettled(p, run, ok)

SpecPetal == InitAgg /\ [][NextPetal]_vars

(* ------------------------------------------------------------------ *)
(* Claims                                                              *)
(* ------------------------------------------------------------------ *)
PetalIdsWithHash(e, h) ==
  {proofsByEpoch[e][i].petalId :
     i \in {k \in 1..Len(proofsByEpoch[e]) : proofsByEpoch[e][k].stateHash = h}}

CountWithHash(e, h) == Len(WithHash(proofsByEpoch[e], h))

HashesIn(e) == {proofsByEpoch[e][i].stateHash : i \in 1..Len(proofsByEpoch[e])}

\* The proof hashes to its own stateHash under the configured threshold fingerprint.
Untampered(proof) ==
  proof.stateHash = ComputeStateHash(proof.records, thresholdFingerprint,
                                     proof.adapterFingerprints, proof.registryTopicId)

\* C1: every history entry for epoch e rests on proofs with the entry's
\* stateHash from at least quorum distinct petalIds; resubmissions by one
\* petal count once.
C1_QuorumOfDistinctPetals ==
  \A i \in 1..Len(history) :
     Cardinality(PetalIdsWithHash(history[i].epoch, history[i].stateHash)) >= quorum

\* C2: an entry (e, h) is appended only in a step after which the epoch-e
\* bucket holds at least quorum proofs with stateHash h, and while the bucket
\* holds fewer than quorum proofs history has no entry for e.
C2_AppendOnlyAtQuorum ==
  /\ [](\A e \in Epochs :
          Len(proofsByEpoch[e]) < quorum => FindIndexByEpoch(history, e) = 0)
  /\ [][\A i \in 1..Len(history') :
          ~EntryExists(history, history'[i]) =>
             Len(WithHash(proofsByEpoch'[history'[i].epoch], history'[i].stateHash))
               >= quorum]_vars

C2_Witness ==
  \E i \in 1..Len(history) :
     /\ CountWithHash(history[i].epoch, history[i].stateHash) = quorum
     /\ Len(proofsByEpoch[history[i].epoch]) > quorum

\* C3: every epoch bucket holds at most one proof per petalId.
C3_OneProofPerPetal ==
  \A e \in Epochs : \A i, j \in 1..Len(proofsByEpoch[e]) :
     i # j => proofsByEpoch[e][i].petalId # proofsByEpoch[e][j].petalId

\* C4: history never holds two entries with the same epoch.
C4_OneEntryPerEpoch ==
  \A i, j \in 1..Len(history) : i # j => history[i].epoch # history[j].epoch

\* C5: history holds at most one entry for any pair (epoch, stateHash).
C5_OneEntryPerEpochAndHash ==
  \A i, j \in 1..Len(history) :
     i # j => ~(/\ history[i].epoch = history[j].epoch
                /\ history[i].stateHash = history[j].stateHash)

\* Proofs with the consolidated hash kept arriving after the entry was appended.
C5_Witness ==
  \E i \in 1..Len(history) :
     CountWithHash(history[i].epoch, history[i].stateHash) > quorum

\* A bucket the sixth claim speaks of: at least quorum proofs, none tampered.
WellFormedBucket(e) ==
  /\ Len(proofsByEpoch[e]) >= quorum
  /\ \A i \in 1..Len(proofsByEpoch[e]) : Untampered(proofsByEpoch[e][i])

Aggregated(e) ==
  aggregateConsensus(e, proofsByEpoch[e], quorum, thresholdFingerprint,
                     participantAccounts).ok

StrictMajority(e) ==
  \E h \in HashesIn(e) : 2 * CountWithHash(e, h) > Len(proofsByEpoch[e])

\* C6 as stated: for a well-formed bucket of size >= quorum, aggregateConsensus
\* returns an entry exactly when a strict majority of its proofs share one
\* stateHash.
C6_EntryIffStrictMajority ==
  \A e \in Epochs : WellFormedBucket(e) => (Aggregated(e) <=> StrictMajority(e))

\* C6 as amended: for a well-formed bucket of size >= quorum, aggregateConsensus
\* returns an entry exactly when some stateHash is shared by at least quorum
\* proofs of the bucket.
C6_EntryIffGroupAtQuorum ==
  \A e \in Epochs :
     WellFormedBucket(e) =>
        (Aggregated(e) <=> \E h \in HashesIn(e) : CountWithHash(e, h) >= quorum)

\* Two groups of quorum size and no majority: an entry is returned.
C6_Witness ==
  \E e \in Epochs :
     /\ WellFormedBucket(e)
     /\ ~StrictMajority(e)
     /\ Aggregated(e)

HasConsensusMessage(e, h) ==
  \E k \in 1..Len(floraTopic) :
     /\ floraTopic[k].kind = "consensus"
     /\ floraTopic[k].epoch = e
     /\ floraTopic[k].stateHash = h

\* C7: the published map changes for an epoch only when a call settles in
\* which every proof was validated and the consolidated message was submitted
\* (so a published hash always has its message on the flora state topic); a
\* call in which a proof failed validation submits nothing and resolves to
\* null; and a settling call changes history (the publisher's stamp) only if
\* it validated every proof and submitted.
C7_PublishedOnlyAfterValidatedSubmit ==
  /\ [](\A e \in Epochs :
          publishedConsensus[e] # NoHash => HasConsensusMessage(e, publishedConsensus[e]))
  /\ [][\A e \in Epochs :
          publishedConsensus'[e] # publishedConsensus[e] =>
             \E i \in 1..Len(calls) :
                /\ calls[i].epoch = e
                /\ calls[i].stateHash = publishedConsensus'[e]
                /\ calls[i].stage = "meta"
                /\ calls[i].validated = "all"
                /\ calls' = RemoveAt(calls, i)]_vars
  /\ [][\A i \in 1..Len(calls) :
          (/\ Len(calls') = Len(calls)
           /\ calls[i].stage = "running"
           /\ calls'[i].validated = "some-invalid") =>
             (floraTopic' = floraTopic /\ calls'[i].stage = "null")]_vars
  /\ [][(Len(calls') < Len(calls) /\ history' # history) =>
          \E i \in 1..Len(calls) :
             /\ calls' = RemoveAt(calls, i)
             /\ calls[i].stage = "meta"
             /\ calls[i].validated = "all"
             /\ HasConsensusMessage(calls[i].epoch, calls[i].stateHash)]_vars

\* An epoch is published and its entry carries the publisher's stamp: the
\* position of its consolidated message, which the tailer has not read yet.
C7_Witness ==
  \E e \in Epochs : \E k \in 1..Len(floraTopic) : \E n \in 1..Len(history) :
     /\ publishedConsensus[e] # NoHash
     /\ floraTopic[k] = [kind |-> "consensus", epoch |-> e,
                         stateHash |-> publishedConsensus[e]]
     /\ lastTimestamp < k
     /\ history[n].epoch = e
     /\ history[n].consensusTimestamp = k

\* C8: at most one publishConsensus call is in flight for any epoch.
C8_OneCallPerEpoch ==
  \A i, j \in 1..Len(calls) : i # j => calls[i].epoch # calls[j].epoch

\* C9: with leader publishing enabled, every history entry that is not
\* recorded as published (here: neither in the published map nor ever
\* submitted to the flora state topic) has a call in flight or a retry timer
\* pending for its epoch.
C9_UnpublishedEntryIsPending ==
  publishEnabled =>
    \A k \in 1..Len(history) :
       (/\ publishedConsensus[history[k].epoch] # history[k].stateHash
        /\ ~HasConsensusMessage(history[k].epoch, history[k].stateHash)) =>
          \/ \E i \in 1..Len(calls) : calls[i].epoch = history[k].epoch
          \/ history[k].epoch \in publishRetryTimers

PublishedIndexes ==
  {k \in 1..Len(history) : publishedConsensus[history[k].epoch] = history[k].stateHash}

\* C10: with leader publishing enabled, getLatest is the last (highest-epoch)
\* history entry whose publication has succeeded, and null while there is none.
C10_LatestIsLatestPublished ==
  publishEnabled =>
    getLatest = IF PublishedIndexes = {} THEN NoEntry
                ELSE history[CHOOSE k \in PublishedIndexes :
                               \A j \in PublishedIndexes : j <= k]

\* C11: a POST /proof answered 400 leaves the Consumer state as it was: epoch
\* buckets, history, chunk buffer, metadata map and queue, adapter roster and
\* the petalId -> petalStateTopicId bindings. (Only a POST changes the response
\* status, so a step in which it becomes 400 is a rejected POST.)
C11_RejectedPostChangesNothing ==
  [][(httpStatus' = 400 /\ httpStatus # 400) =>
        UNCHANGED << proofsByEpoch, history, chunkBuffer, metaByEpoch, metaQueue,
                     petalAdapters, petalStateTopicsById >>]_vars

Range(seq) == {seq[i] : i \in 1..Len(seq)}

\* The participants rule, stated on its own: the member list when one is known
\* (same ids, each once), else expectedPetals elements.
ParticipantsAsExpected(participants) ==
  IF Len(participantAccounts) > 0
  THEN /\ Len(participants) = Len(participantAccounts)
       /\ Range(participants) = Range(participantAccounts)
  ELSE Len(participants) = expectedPetals

\* The conditions the twelfth claim lists for a whole proof.
PolicyHolds(proof) ==
  /\ proof.floraAccountId = floraAccountId
  /\ proof.thresholdFingerprint = thresholdFingerprint
  /\ proof.registryTopicId = adapterCategoryTopicId
  /\ proof.petalId \in DOMAIN petalAccountsById =>
       proof.petalAccountId = petalAccountsById[proof.petalId]
  /\ ParticipantsAsExpected(proof.participants)

C13_BucketedProofsMeetPolicy ==
  \A e \in Epochs : \A i \in 1..Len(proofsByEpoch[e]) :
     /\ PolicyHolds(proofsByEpoch[e][i])
     /\ petalStateTopicsById[proofsByEpoch[e][i].petalId]
          = proofsByEpoch[e][i].petalStateTopicId

\* C14: a binding petalId -> petalStateTopicId, once made, never changes; a
\* whole proof is accepted only with its petal bound to the proof's topic; and
\* a whole proof POSTed for a bound petal with another topic is answered 400
\* and changes no bucket. So after a whole proof of petal p with topic t was
\* accepted, every later whole proof of p with another topic is rejected.
C14_StateTopicBindingIsKept ==
  /\ [][\A p \in PetalIds :
          petalStateTopicsById[p] # NoString =>
             petalStateTopicsById'[p] = petalStateTopicsById[p]]_vars
  /\ [][\A payload \in IntakeInputs :
          PostProof(payload, MaxIntakeProofs) =>
            /\ httpStatus' = 200 =>
                 petalStateTopicsById'[payload.petalId] = payload.petalStateTopicId
            /\ (/\ petalStateTopicsById[payload.petalId] # NoString
                /\ petalStateTopicsById[payload.petalId] # payload.petalStateTopicId) =>
                 /\ httpStatus' = 400
                 /\ proofsByEpoch' = proofsByEpoch]_vars

\* A proof of petal-1 with its first topic is bucketed; the last POST, with
\* another topic, was rejected.
C14_Witness ==
  /\ httpStatus = 400
  /\ httpError = "Invalid petal state topic"
  /\ \E i \in 1..Len(proofsByEpoch[0]) :
       /\ proofsByEpoch[0][i].petalId = "petal-1"
       /\ proofsByEpoch[0][i].petalStateTopicId = petalStateTopicsById["petal-1"]

\* History is re-sorted when an entry is appended, so an entry is followed from
\* one state to the next by its epoch and stateHash.
SameEntry(a, b) == a.epoch = b.epoch /\ a.stateHash = b.stateHash

\* C15: once consensusTimestamp, sequenceNumber or hcsMessage of a history
\* entry has a value, no step changes that value.
C15_MetadataFilledOnce ==
  [][\A i \in 1..Len(history) : \E j \in 1..Len(history') :
        /\ SameEntry(history[i], history'[j])
        /\ history[i].consensusTimestamp # Undefined =>
             history'[j].consensusTimestamp = history[i].consensusTimestamp
        /\ history[i].sequenceNumber # Undefined =>
             history'[j].sequenceNumber = history[i].sequenceNumber
        /\ history[i].hcsMessage # NoString =>
             history'[j].hcsMessage = history[i].hcsMessage]_vars

\* An entry keeps the timestamp of the first message although the tailer has
\* since applied the metadata of a second message, the consolidated message of
\* the entry's own epoch.
C15_Witness ==
  \E n \in 1..Len(history) :
     /\ history[n].consensusTimestamp = 1
     /\ lastTimestamp = 2
     /\ floraTopic[2].kind = "consensus"
     /\ floraTopic[2].epoch = history[n].epoch

\* C16: every step leaves epoch, stateHash, price, timestamp, participants and
\* sources of every history entry as they were.
C16_EntryBodyIsImmutable ==
  [][\A i \in 1..Len(history) : \E j \in 1..Len(history') :
        /\ SameEntry(history[i], history'[j])
        /\ history'[j].price = history[i].price
        /\ history'[j].timestamp = history[i].timestamp
        /\ history'[j].participants = history[i].participants
        /\ history'[j].sources = history[i].sources]_vars

\* An entry carries the timestamp of its own consolidated message: it was
\* stamped after it was appended.
C16_Witness ==
  \E n \in 1..Len(history) : \E k \in 1..Len(floraTopic) :
     /\ floraTopic[k].kind = "consensus"
     /\ floraTopic[k].epoch = history[n].epoch
     /\ history[n].consensusTimestamp = k
     /\ lastTimestamp >= k

\* The messages for epoch e whose metadata the tailer has applied.
AppliedFor(e) == {k \in 1..lastTimestamp : floraTopic[k].epoch = e}

\* C17: the entry of an epoch does not depend on how the arrival of the proofs
\* and the tailer's applyMeta calls for the epoch interleave. When the metadata
\* arrives after the entry, the entry takes the timestamp and sequence number
\* of the first message applied for its epoch; so it has them in every
\* interleaving, once any message for the epoch has been applied.
C17_MetadataOrderIrrelevant ==
  \A n \in 1..Len(history) :
     LET applied == AppliedFor(history[n].epoch)
         first == CHOOSE k \in applied : \A j \in applied : k <= j
     IN  applied # {} =>
           /\ history[n].consensusTimestamp = first
           /\ history[n].sequenceNumber = first
           /\ history[n].hcsMessage = HcsPointer

\* C18: the tailer's cursor never decreases; the tailer applies metadata only
\* in a step in which the cursor strictly increases, and what it applies is
\* the new cursor position; so a message at or below the cursor is skipped.
C18_CursorStrictlyMonotonic ==
  /\ [][lastTimestamp' >= lastTimestamp]_vars
  /\ [][metaByEpoch' # metaByEpoch =>
          /\ lastTimestamp' > lastTimestamp
          /\ \A e \in Epochs :
               metaByEpoch'[e] # metaByEpoch[e] =>
                 metaByEpoch'[e].consensusTimestamp = lastTimestamp']_vars
  /\ [](lastTimestamp <= Len(floraTopic))

\* The tailer has processed both messages of the topic: whatever a poll's
\* response carries from now on is at or below the cursor.
C18_Witness ==
  /\ Len(floraTopic) = MaxTopic
  /\ lastTimestamp = Len(floraTopic)
  /\ \A e \in Epochs : metaByEpoch[e] # NoMeta

\* C19: whatever the order in which the chunks of a proof are posted, the
\* proof the aggregator receives from them is the original one (up to the log
\* metadata ingestProof adds), it receives it once, and it receives it only
\* from the complete set of chunks.
C19_AssembledProofIsOriginal ==
  LET bucket == proofsByEpoch[ChunkedProof.epoch]
      assembled == {i \in 1..Len(bucket) : bucket[i].petalId = ChunkedProof.petalId}
  IN  /\ Cardinality(assembled) <= 1
      /\ \A i \in assembled :
           [bucket[i] EXCEPT !.hcsMessage = NoString,
                             !.consensusTimestamp = Undefined,
                             !.sequenceNumber = Undefined] = ChunkedProof

\* The ids of a list after trimming, without the blank ones.
DistinctIds(ids) == {Trim(ids[i]) : i \in 1..Len(ids)} \ {""}

\* left comes before right in dotted-integer order: at the first component
\* (a missing one counting 0) where they differ left has the smaller number;
\* when no component differs, the text decides.
RECURSIVE PartsBefore(_, _, _, _)
PartsBefore(l, r, i, tie) ==
  IF i > Len(l) /\ i > Len(r) THEN tie
  ELSE LET a == IF i <= Len(l) THEN l[i] ELSE 0
           b == IF i <= Len(r) THEN r[i] ELSE 0
       IN  IF a = b THEN PartsBefore(l, r, i + 1, tie) ELSE a < b

DottedBefore(left, right) ==
  PartsBefore(toAccountParts(left), toAccountParts(right), 1,
              LocaleRank(left) < LocaleRank(right))

\* C20: selectRoundLeader(e, P) is the id that has exactly |e| mod n of the n
\* distinct trimmed ids of P before it in dotted-integer order (text order on
\* a tie), and null when P holds no id; it depends on P as a set only, so it
\* is the same for every ordering of P.
C20_LeaderIsIndexedInSortedIds ==
  result # << >> =>
    LET ids == DistinctIds(args.accountIds)
        n == Cardinality(ids)
        e == IF args.epoch < 0 THEN 0 - args.epoch ELSE args.epoch
    IN  IF n = 0 THEN result[1] = NoString
        ELSE /\ result[1] \in ids
             /\ Cardinality({id \in ids : DottedBefore(id, result[1])}) = e % n

\* A negative epoch and a list in which dotted-integer order differs from
\* text order ("0.0.9" before "0.0.10"), with a padded duplicate.
C20_Witness ==
  /\ result = << "0.0.9" >>
  /\ args.epoch = 0 - 2
  /\ args.accountIds = << "0.0.10", "0.0.9", " 0.0.10" >>

\* The k-th smallest element of a list of numbers, by counting.
KthSmallest(xs, k) ==
  CHOOSE x \in Range(xs) :
     /\ Cardinality({i \in 1..Len(xs) : xs[i] < x}) < k
     /\ k <= Cardinality({i \in 1..Len(xs) : xs[i] <= x})

\* Twice the standard median of a non-empty list.
StandardMedian2(xs) ==
  LET n == Len(xs)
  IN  IF n % 2 = 1 THEN 2 * KthSmallest(xs, (n + 1) \div 2)
      ELSE KthSmallest(xs, n \div 2) + KthSmallest(xs, (n \div 2) + 1)

\* The prices of all records of the proofs of a bucket that carry hash h.
GroupPrices(bucket, h) ==
  LET group == SelectSeq(bucket, LAMBDA p : p.stateHash = h)
      Count[i \in 0..Len(group)] ==
        IF i = 0 THEN 0 ELSE Count[i - 1] + Len(group[i].records)
      At(k) ==
        LET i == CHOOSE j \in 1..Len(group) : Count[j - 1] < k /\ k <= Count[j]
        IN  group[i].records[k - Count[i - 1]].payload.price
  IN  [k \in 1..Count[Len(group)] |-> At(k)]

\* C21: an entry is appended with the median of the prices of all records of
\* the proofs of its epoch that carry its stateHash (odd count: the middle
\* value, even count: the mean of the two middle values), to the nearest
\* 1e-8; proofs with another stateHash in the bucket have no part in it.
C21_PriceIsMedianOfWinningGroup ==
  [][\A i \in 1..Len(history') :
       ~EntryExists(history, history'[i]) =>
          LET entry == history'[i]
              m2 == StandardMedian2(GroupPrices(proofsByEpoch'[entry.epoch],
                                                entry.stateHash))
          IN  IF m2 % 2 = 0 THEN 2 * entry.price = m2
              ELSE 2 * entry.price \in {m2 - 1, m2 + 1}]_vars

\* An entry whose price is the mean of two different middle values, from a
\* bucket whose first proof belongs to the outlier's group.
C21_Witness ==
  \E i \in 1..Len(history) :
     LET bucket == proofsByEpoch[history[i].epoch]
     IN  /\ history[i].price = 7050000
         /\ Len(bucket) = 3
         /\ bucket[1].stateHash # history[i].stateHash
         /\ bucket[1].records[1].payload.price = 8000000

PayloadsOf(proof) ==
  {<< proof.records[i].adapterId, proof.records[i].payload >> :
     i \in 1..Len(proof.records)}

\* C23: two proofs of different petals for the same epoch number and built
\* from the same adapter payloads carry the same timestamp and stateHash.
C23_SameDataSameHash ==
  \A a \in posted : \A b \in posted :
     (a.petalId # b.petalId /\ a.epoch = b.epoch /\ PayloadsOf(a) = PayloadsOf(b))
       => (a.timestamp = b.timestamp /\ a.stateHash = b.stateHash)

\* C24: an epoch whose submission to the petal's state topic failed has its
\* proof on the way to the Consumer, delivered to it, or refused by the
\* network.
C24_FailedSubmitStillPosts ==
  \A p \in PetalNodes : \A e \in 0..(MaxNow + 1) :
     [event |-> "Failed to publish epoch", epoch |-> e] \in petalProc[p].log =>
        \/ \E run \in petalProc[p].runs : run.epoch = e /\ run.stage = "post"
        \/ \E proof \in posted : proof.petalId = p /\ proof.epoch = e
        \/ [event |-> "Failed to post proof", epoch |-> e] \in petalProc[p].log

\* C25: an epoch in which an adapter failed leaves no message on the petal's
\* state topic and no proof at the Consumer, and no proof is ever built from
\* fewer records than there are adapters.
C25_FailedAdapterSkipsEpoch ==
  /\ \A p \in PetalNodes : \A entry \in petalProc[p].log :
        entry.event \in {"No records", "Partial records"} =>
           /\ ~\E proof \in posted : proof.petalId = p /\ proof.epoch = entry.epoch
           /\ ~\E m \in petalTopics :
                 m.account_id = PetalAccount(p) /\ m.epoch = entry.epoch
           /\ ~\E run \in petalProc[p].runs : run.epoch = entry.epoch
  /\ \A proof \in posted : Len(proof.records) = 2
  /\ \A p \in PetalNodes : \A run \in petalProc[p].runs :
        run.stage # "adapters" => Len(run.proof.records) = 2

\* One adapter of petal-1 failed in epoch 0 and petal-1 published nothing,
\* while its next epoch reached both its state topic and the Consumer.
C25_Witness ==
  /\ [event |-> "Partial records", epoch |-> 0] \in petalProc["petal-1"].log
  /\ \E proof \in posted : proof.petalId = "petal-1" /\ proof.epoch = 1
  /\ \E m \in petalTopics : m.account_id = PetalAccount("petal-1") /\ m.epoch = 1

\* C26: the epochs a petal has started adapter runs for are non-negative and
\* strictly increasing (so none is started twice), lastEpoch is the last of
\* them, and a step starts at most one run, for an epoch above lastEpoch.
C26_EpochsStartedOnceAndIncreasing ==
  /\ [](\A p \in PetalNodes :
          LET started == petalProc[p].started
          IN  /\ \A i \in 1..Len(started) : started[i] >= 0
              /\ \A i \in 1..Len(started) : \A j \in 1..Len(started) :
                    i < j => started[i] < started[j]
              /\ petalProc[p].lastEpoch =
                    IF started = << >> THEN -1 ELSE started[Len(started)])
  /\ [][\A p \in PetalNodes :
          petalProc'[p].started # petalProc[p].started =>
             \E epoch \in 0..(MaxNow + 1) :
                /\ epoch > petalProc[p].lastEpoch
                /\ petalProc'[p].started = Append(petalProc[p].started, epoch)]_vars

\* petal-1 ran epoch 0, its ticks during epoch 0 started nothing more, and it
\* ran epoch 1 when its clock reached it.
C26_Witness ==
  /\ petalProc["petal-1"].started = << 0, 1 >>
  /\ petalProc["petal-1"].lastEpoch = 1

\* C27: once stop has been called no publish-retry timer is pending, no
\* pollMirror call begins and no publishConsensus call begins.
C27_StopEndsPollsAndRetries ==
  /\ [](~listening => (~pollTimer /\ publishRetryTimers = {}))
  /\ [][~listening => (polling' => polling)]_vars
  /\ [][~listening => Len(calls') <= Len(calls)]_vars

\* C28: history is sorted by non-decreasing epoch in every state, so no entry
\* has a higher epoch than the last one.
C28_HistorySortedByEpoch ==
  /\ \A i \in 1..Len(history) : \A j \in 1..Len(history) :
        i < j => history[i].epoch <= history[j].epoch
  /\ \A i \in 1..Len(history) : history[i].epoch <= history[Len(history)].epoch

\* The entry of epoch 0 was appended to a history that held the stored entry
\* of epoch 1, and has since been stamped with its log metadata.
C28_Witness ==
  /\ Len(history) = 2
  /\ history[1].epoch = 0
  /\ history[1].consensusTimestamp # Undefined
  /\ history[2] = StoredEntry(1)

\* C29: two values that differ only in the order their keys were inserted or
\* in keys whose value is undefined have the same canonical text; the keys of
\* the text are in lexicographic order; arrays keep their order; a non-finite
\* number is written as 0.
C29_CanonicalTextIsUnique ==
  result # << >> =>
    LET entries == result.normalized[2]
    IN  /\ result.a = result.b
        /\ \A i \in 1..Len(entries) : \A j \in 1..Len(entries) :
              i < j => KeyLess(entries[i][1], entries[j][1])
        /\ \A i \in 1..Len(entries) :
              /\ entries[i][2] \notin {<< "nan" >>, << "inf" >>, << "undef" >>}
              /\ entries[i][2][1] = "arr" =>
                    entries[i][2] = << "arr", << << "num", 2 >>, << "num", 0 >>,
                                               << "num", 1 >> >> >>
        /\ \A i \in 1..Len(args.a) :
              args.a[i][2] \in {<< "nan" >>, << "inf" >>} =>
                 \E k \in 1..Len(entries) :
                    entries[k] = << args.a[i][1], << "num", 0 >> >>

\* C30: every participant of a consensus entry is an account id of three
\* integers separated by dots, whether the aggregator took the participants
\* from the account list it was given, from the participants of the proofs or
\* from the petalAccountId of the matching proofs.
C30_ParticipantsAreAccountIds ==
  (result # << >> /\ result.ok) =>
     \A i \in 1..Len(result.entry.participants) :
        isAccountId(result.entry.participants[i])

\* The records of a proof hash to the state hash it states.
Genuine(proof) ==
  ComputeStateHash(proof.records, thresholdFingerprint, proof.adapterFingerprints,
                   proof.registryTopicId) = proof.stateHash

GenuineWithHash(bucket, h) ==
  SelectSeq(bucket, LAMBDA proof : proof.stateHash = h /\ Genuine(proof))

\* The group of h is larger than the group of every other hash of the bucket.
StrictlyLargest(bucket, h) ==
  \A i \in 1..Len(bucket) :
     bucket[i].stateHash # h =>
        Len(WithHash(bucket, bucket[i].stateHash)) < Len(WithHash(bucket, h))

\* C31: when an epoch's bucket holds at least quorum proofs whose records hash
\* to h and the group of h is the largest of the bucket, history holds an entry
\* for that epoch and h, whatever else the bucket received before them.
C31_GenuineQuorumGetsEntry ==
  \A e \in Epochs :
     \A i \in 1..Len(proofsByEpoch[e]) :
        LET h == proofsByEpoch[e][i].stateHash
        IN  (/\ Len(GenuineWithHash(proofsByEpoch[e], h)) >= quorum
             /\ StrictlyLargest(proofsByEpoch[e], h))
            => \E k \in 1..Len(history) :
                  history[k].epoch = e /\ history[k].stateHash = h

\* C32: every proof whose records give an appended entry its sources and its
\* price hashes to the stateHash it states, and the price is the median over
\* the proofs of the group that do: a proof that states the winning hash over
\* other records has no part in the price.
C32_OnlyGenuineProofsPriceAnEntry ==
  [][\A i \in 1..Len(history') :
       ~EntryExists(history, history'[i]) =>
          LET entry == history'[i]
              bucket == proofsByEpoch'[entry.epoch]
              group == WithHash(bucket, entry.stateHash)
              genuine == GenuineWithHash(bucket, entry.stateHash)
              m2 == StandardMedian2(GroupPrices(genuine, entry.stateHash))
          IN  /\ \A k \in 1..Len(group) : Genuine(group[k])
              /\ Len(genuine) > 0
              /\ IF m2 % 2 = 0 THEN 2 * entry.price = m2
                 ELSE 2 * entry.price \in {m2 - 1, m2 + 1}]_vars

\* C33: every proof in a bucket, received whole or assembled from chunks, has
\* the fields of a ProofPayload with their types, among them a non-empty
\* petalStateTopicId and an epoch that is a non-negative integer; a body that
\* lacks one is answered with status 400.
C33_AcceptedProofsAreWellFormed ==
  \A e \in Epochs :
     \A i \in 1..Len(proofsByEpoch[e]) :
        LET proof == proofsByEpoch[e][i]
        IN  /\ HasProofFields(proof)
            /\ isString(proof.petalStateTopicId)
            /\ proof.epoch \in Nat

\* The messages fetched for a proof: none when it names no state topic.
Fetched == IF args.proof.petalStateTopicId = NoString THEN << >> ELSE args.messages

IsStateHashOf(message, proof) ==
  /\ message.kind = "hcs-17 state_hash"
  /\ message.state_hash = proof.stateHash
  /\ message.account_id = proof.petalAccountId

\* C34 as stated: the validation succeeds exactly when a fetched message is a
\* state_hash message of the proof's hash and account whose epoch is the
\* proof's epoch or whose memo is hcs17:<epoch>, either one being enough.
C34_EitherEpochOrMemo ==
  result # << >> =>
    (result.ok <=>
       \E i \in 1..Len(Fetched) :
          /\ IsStateHashOf(Fetched[i], args.proof)
          /\ \/ Fetched[i].epoch = args.proof.epoch
             \/ Fetched[i].m = MemoOf(args.proof.epoch))

\* C34: the validation succeeds exactly when a fetched message is a state_hash
\* message of the proof's hash and account and either has the proof's epoch as
\* its numeric epoch, or has no numeric epoch and the memo hcs17:<epoch>.
C34_EpochThenMemo ==
  result # << >> =>
    (result.ok <=>
       \E i \in 1..Len(Fetched) :
          /\ IsStateHashOf(Fetched[i], args.proof)
          /\ \/ Fetched[i].epoch = args.proof.epoch
             \/ /\ Fetched[i].epoch = Undefined
                /\ Fetched[i].m = MemoOf(args.proof.epoch))

\* A message of the proof's hash and account that names another epoch in its
\* epoch field and the proof's epoch in its memo has been refused.
C34_Witness ==
  /\ result # << >>
  /\ ~result.ok
  /\ \E i \in 1..Len(Fetched) :
        /\ IsStateHashOf(Fetched[i], args.proof)
        /\ Fetched[i].epoch = 1
        /\ Fetched[i].m = MemoOf(args.proof.epoch)

\* The positions of a bucket whose proof belongs to a group of the largest size.
InLargestGroup(bucket) ==
  {i \in 1..Len(bucket) :
     \A j \in 1..Len(bucket) :
        Len(WithHash(bucket, bucket[j].stateHash))
          <= Len(WithHash(bucket, bucket[i].stateHash))}

\* Two groups of a bucket have the largest size, which is at least quorum.
TiedAtQuorum(bucket) ==
  /\ \E i \in InLargestGroup(bucket) : \E j \in InLargestGroup(bucket) :
        bucket[i].stateHash # bucket[j].stateHash
  /\ \E i \in InLargestGroup(bucket) :
        Len(WithHash(bucket, bucket[i].stateHash)) >= quorum

\* C35: when several groups of a bucket share the largest size and that size
\* is at least quorum, the entry aggregateConsensus returns for the bucket is
\* for the group, among those, whose first proof is the earliest in the bucket.
C35_TieGoesToEarliestGroup ==
  \A e \in Epochs :
     LET bucket == proofsByEpoch[e]
         consensus == aggregateConsensus(e, bucket, quorum, thresholdFingerprint,
                                         participantAccounts)
     IN  (TiedAtQuorum(bucket) /\ consensus.ok) =>
            LET first == CHOOSE i \in InLargestGroup(bucket) :
                            \A j \in InLargestGroup(bucket) : i <= j
            IN  /\ consensus.entry.stateHash = bucket[first].stateHash
                /\ consensus.proofs = WithHash(bucket, bucket[first].stateHash)

\* A tie of two groups of two proofs: the group of the first proof wins although
\* the other group reached two proofs before it.
C35_Witness ==
  LET bucket == proofsByEpoch[0]
      consensus == aggregateConsensus(0, bucket, quorum, thresholdFingerprint,
                                      participantAccounts)
  IN  /\ Len(bucket) = 4
      /\ TiedAtQuorum(bucket)
      /\ consensus.ok
      /\ bucket[2].stateHash # bucket[1].stateHash
      /\ bucket[3].stateHash = bucket[2].stateHash
      /\ consensus.entry.stateHash = bucket[1].stateHash

\* C36: every publishConsensus call, first attempt or retry, validates proofs
\* of the entry's stateHash only, and is never refused because of a proof of
\* the epoch that carries another stateHash.
C36_AttemptsValidateMatchingGroupOnly ==
  \A i \in 1..Len(calls) :
     LET c == calls[i]
         proofs == CallProofs(c)
     IN  \A k \in 1..Len(proofs) : proofs[k].stateHash = c.stateHash

\* Every petal with a proof in the group of entry (e, h) has a state_hash
\* message for e and h on its own state topic.
GroupPublished(e, h) ==
  /\ \E k \in 1..Len(history) : history[k].epoch = e /\ history[k].stateHash = h
  /\ \A i \in 1..Len(proofsByEpoch[e]) :
        LET proof == proofsByEpoch[e][i]
        IN  proof.stateHash = h =>
               \E msg \in petalTopics :
                  /\ msg.topic = proof.petalStateTopicId
                  /\ msg.account_id = proof.petalAccountId
                  /\ msg.state_hash = h
                  /\ msg.epoch = e

\* C37: once an epoch has an entry and every petal of its group has its
\* state_hash message for the epoch on its topic, the entry is eventually
\* published, whatever failed before and whatever the petals submitted since.
C37_PublishedEventually ==
  \A e \in Epochs :
     LET h == buildProof("petal-1", e, "A").stateHash
     IN  GroupPublished(e, h) ~> (publishedConsensus[e] = h)

\* C38: the flora state topic holds at most one consolidated message for any
\* epoch and stateHash, every message on it being one whose submission
\* returned its metadata.
C38_SubmittedAtMostOnce ==
  \A i \in 1..Len(floraTopic) : \A j \in 1..Len(floraTopic) :
     (/\ floraTopic[i].kind = "consensus"
      /\ floraTopic[j].kind = "consensus"
      /\ floraTopic[i].epoch = floraTopic[j].epoch
      /\ floraTopic[i].stateHash = floraTopic[j].stateHash) => i = j

\* C39: once every persistence write issued for an epoch has completed, the
\* stored consensus_entries row of the epoch equals the history entry of the
\* epoch, whatever order the writes completed in.
C39_StoredRowEqualsEntry ==
  (persistEnabled /\ pendingWrites = << >>) =>
     \A n \in 1..Len(history) : consensusRows[history[n].epoch] = history[n]

\* C40: however pollMirror calls overlap, no message of the log goes through
\* the body of the loop (where applyMeta and ingestProof are called) twice.
C40_EachMessageHandledOnce ==
  \A i \in 1..Len(delivered) : \A j \in 1..Len(delivered) :
     delivered[i] = delivered[j] => i = j

\* A call made with a cursor that another call has since moved holds a
\* response whose first message that other call has already handled.
C40_Witness ==
  \E i \in 1..Len(pollsInFlight) :
     /\ pollsInFlight[i].stage = "body"
     /\ Len(pollsInFlight[i].messages) > 0
     /\ pollsInFlight[i].cursor < lastTimestamp
     /\ \E k \in 1..Len(delivered) : delivered[k] = pollsInFlight[i].messages[1]

====
